---- MODULE Spec2Model ----
(***************************************************************************)
(* AffectionMap: the analysis core (affection_map/analysis.py) and the     *)
(* code that feeds profiles to the radar renderers.                        *)
(*                                                                         *)
(* Real numbers.  A profile value or vector element is an integer number   *)
(* of grid steps of 1e-4 (so 10.0 is 100000 steps).  On that grid the      *)
(* absolute tolerance 1e-8 that np.isclose applies to a variance is        *)
(* exactly one squared grid step, which is what lets the model tell a      *)
(* constant vector from a vector whose variance is merely below the        *)
(* tolerance.  A correlation coefficient is kept exactly, as its sign and  *)
(* the reduced fraction of its square; floating-point rounding of the      *)
(* last bits is not modelled.                                              *)
(***************************************************************************)
EXTENDS Integers, Sequences, FiniteSets, TLC

\* ---------------------------------------------------------------- bounds
MaxLen == 3          \* longest vector handed to correlation / close_loop
MaxVal == 2          \* largest vector element, in grid steps
MaxSlope == 2        \* slopes a of the affine images a*x + b
MaxOffset == 1       \* offsets b of the affine images a*x + b
MaxCount == 4        \* largest |category_count| handed to polar_angles
MaxScore == 1        \* largest profile value handed to build_explanation
MaxSteps == 3        \* events handled by the application in one run
MaxPanelSteps == 2   \* events handled by the ui panels in one run
MaxExtra == 1        \* values an imported array may have beyond the categories

\* ------------------------------------------------------ program constants
\* np.isclose(var, 0.0) uses atol = 1e-8, i.e. one squared grid step.
Atol == 1

CATEGORIES ==
    << "Words of Affirmation", "Acts of Service", "Receiving Gifts",
       "Quality Time", "Physical Touch" >>

\* ---------------------------------------------------------------- helpers
Vals == 0..MaxVal

Vectors == UNION { [1..n -> Vals] : n \in 0..MaxLen }

RECURSIVE SumSeq(_)
SumSeq(s) == IF s = << >> THEN 0 ELSE Head(s) + SumSeq(Tail(s))

Abs(v) == IF v < 0 THEN -v ELSE v

RECURSIVE Gcd(_, _)
Gcd(a, b) == IF b = 0 THEN a ELSE Gcd(b, a % b)

\* Outcomes of a call.
Raise(exc) == [kind |-> "raise", exc |-> exc]
Return(v) == [kind |-> "return", value |-> v]

\* Coefficients: float("nan"), or the real with sign sgn and square num/den.
NaN == [def |-> FALSE, sgn |-> 0, num |-> 0, den |-> 1]
Coef(sgn, num, den) ==
    LET g == Gcd(num, den)
    IN  [def |-> TRUE, sgn |-> sgn, num |-> num \div g, den |-> den \div g]
One == Coef(1, 1, 1)
MinusOne == Coef(-1, 1, 1)

\* n * (x[i] - mean(x)) for every i: the mean-centred vector, scaled by n
\* so that it stays integral.
Centred(x) ==
    LET n == Len(x)
        total == SumSeq(x)
    IN  [i \in 1..n |-> n * x[i] - total]

\* The greatest common divisor of the absolute values of c (0 if all are 0).
RECURSIVE CommonFactor(_)
CommonFactor(c) ==
    IF c = << >> THEN 0 ELSE Gcd(Abs(Head(c)), CommonFactor(Tail(c)))

\* The centred vector with its common factor divided out.  Sums of squares
\* and of products are taken on this vector and the factor is carried
\* separately: the same reals, without leaving the range of machine
\* integers when the elements differ by whole units rather than grid steps.
Direction(x) ==
    LET c == Centred(x)
        g == CommonFactor(c)
    IN  IF g = 0 THEN c ELSE [i \in 1..Len(c) |-> c[i] \div g]

\* sum((x - mean)^2) * n^2 / CommonFactor^2
SumSquares(x) ==
    LET d == Direction(x)
    IN  SumSeq([i \in 1..Len(d) |-> d[i] * d[i]])

\* np.isclose(np.var(x, ddof=1), 0.0):
\* var = CommonFactor^2 * SumSquares / (n^2 (n-1)), compared with the
\* absolute tolerance only (the reference value is 0).
VarIsCloseToZero(x) ==
    LET g == CommonFactor(Centred(x))
        n == Len(x)
    IN  \/ g = 0
        \/ SumSquares(x) <= ((Atol * n * n * (n - 1)) \div g) \div g

\* x == x[0] for every element
IsConstant(x) == \A i \in 1..Len(x) : x[i] = x[1]

\* pearsonr with the sign of the coefficient dropped
pearsonr_NoSign(x, y) ==
    LET dx == Direction(x)
        dy == Direction(y)
        sxy == SumSeq([i \in 1..Len(dx) |-> dx[i] * dy[i]])
    IN  IF Len(x) < 2 THEN Raise("ValueError")
        ELSE IF IsConstant(x) \/ IsConstant(y) THEN Return(NaN)
        ELSE Return(Coef(IF sxy = 0 THEN 0 ELSE 1,
                         sxy * sxy, SumSquares(x) * SumSquares(y)))

\* scipy.stats.pearsonr(x, y)[0] for vectors of equal length: an error for
\* fewer than 2 elements, nan (with a warning) for a constant input,
\* otherwise sum(xm*ym) / (norm(xm)*norm(ym)) on the mean-centred vectors.
pearsonr(x, y) ==
    LET dx == Direction(x)
        dy == Direction(y)
        sxy == SumSeq([i \in 1..Len(dx) |-> dx[i] * dy[i]])
        sgn == IF sxy > 0 THEN 1 ELSE IF sxy < 0 THEN -1 ELSE 0
    IN  IF Len(x) < 2 THEN Raise("ValueError")
        ELSE IF IsConstant(x) \/ IsConstant(y) THEN Return(NaN)
        ELSE Return(Coef(sgn, sxy * sxy, SumSquares(x) * SumSquares(y)))

\* ------------------------------------------------------------ correlation
\* correlation with the size test ahead of the shape test
correlation_SizeFirst(first, second) ==
    IF Len(first) < 2 THEN Return(NaN)
    ELSE IF Len(first) # Len(second) THEN Raise("ValueError")
    ELSE IF VarIsCloseToZero(first) \/ VarIsCloseToZero(second) THEN Return(NaN)
    ELSE pearsonr(first, second)

\* correlation reporting 0.0 for a vector without variance
correlation_ZeroForConstant(first, second) ==
    IF Len(first) # Len(second) THEN Raise("ValueError")
    ELSE IF Len(first) < 2 THEN Return(NaN)
    ELSE IF VarIsCloseToZero(first) \/ VarIsCloseToZero(second)
         THEN Return(Coef(0, 0, 1))
    ELSE pearsonr(first, second)

\* correlation testing the variance of its first argument only
correlation_FirstVarianceOnly(first, second) ==
    IF Len(first) # Len(second) THEN Raise("ValueError")
    ELSE IF Len(first) < 2 THEN Return(NaN)
    ELSE IF VarIsCloseToZero(first) THEN Return(NaN)
    ELSE pearsonr(first, second)

correlation(first, second) ==
    IF Len(first) # Len(second) THEN Raise("ValueError")
    ELSE IF Len(first) < 2 THEN Return(NaN)
    ELSE IF VarIsCloseToZero(first) \/ VarIsCloseToZero(second) THEN Return(NaN)
    ELSE pearsonr(first, second)

\* ------------------------------------------------------------- close_loop
\* close_loop appending the last value instead of the first
close_loop_AppendLast(values) ==
    IF Len(values) = 0 THEN Raise("IndexError")
    ELSE Return(values \o << values[Len(values)] >>)

\* np.concatenate((values, [values[0]])); values[0] of an empty sequence
\* is an IndexError.
close_loop(values) ==
    IF Len(values) = 0 THEN Raise("IndexError")
    ELSE Return(values \o << values[1] >>)

\* ----------------------------------------------------------- polar_angles
\* An optional integer argument: None, or the integer n.
None == [given |-> FALSE, n |-> 0]
Some(n) == [given |-> TRUE, n |-> n]

\* Python truthiness of an optional integer (None and 0 are falsy).
Truthy(c) == c.given /\ c.n # 0

\* The angle num/den of a full turn, i.e. num * (2*pi/den) radians.
Angle(num, den) == [num |-> num, den |-> den]

\* linspace with endpoint=True: the last sample is the full turn
linspace_Endpoint(total) ==
    IF total < 0 THEN Raise("ValueError")
    ELSE Return([k \in 1..total |-> Angle(k - 1, total - 1)])

\* np.linspace(0, 2*pi, total, endpoint=False).tolist()
linspace(total) ==
    IF total < 0 THEN Raise("ValueError")
    ELSE Return([k \in 1..total |-> Angle(k - 1, total)])

\* polar_angles without the closing copy of the first angle
polar_angles_Open(category_count) ==
    linspace(IF Truthy(category_count) THEN category_count.n
             ELSE Len(CATEGORIES))

polar_angles(category_count) ==
    LET total == IF Truthy(category_count) THEN category_count.n
                 ELSE Len(CATEGORIES)
        spaced == linspace(total)
    IN  IF spaced.kind = "raise" THEN spaced
        ELSE Return(spaced.value \o SubSeq(spaced.value, 1, 1))

\* ------------------------------------------------------ build_explanation
\* Text is a sequence of string tokens; "\n" is the newline character and
\* every other token is free of newlines.
NL == "\n"

\* True when |value| >= p/q, for a finite coefficient and 0 <= p/q.
AbsAtLeast(value, p, q) == value.num * q * q >= p * p * value.den

\* round(100 * |value|), ties to even
Hundredths(value) ==
    CHOOSE h \in 0..100 :
        /\ h = 0 \/ (2 * h - 1) * (2 * h - 1) * value.den <= 40000 * value.num
        /\ 40000 * value.num <= (2 * h + 1) * (2 * h + 1) * value.den
        /\ (h > 0 /\ (2 * h - 1) * (2 * h - 1) * value.den = 40000 * value.num)
              => h % 2 = 0
        /\ ((2 * h + 1) * (2 * h + 1) * value.den = 40000 * value.num)
              => h % 2 = 0

\* f"{value:.2f}"; nan is written "nan"
Format2f(value) ==
    IF ~value.def THEN << "nan" >>
    ELSE LET h == Hundredths(value)
         IN  (IF value.sgn < 0 THEN << "-" >> ELSE << >>)
             \o << ToString(h \div 100), ".",
                   ToString((h % 100) \div 10), ToString(h % 10) >>

\* interpret_correlation with every threshold tested by > instead of >=
interpret_correlation_StrictBounds(giver, receiver, value, description) ==
    IF ~value.def
    THEN << giver, " → ", receiver, ": r is undefined. ",
            "Insufficient variation to assess ", description, "." >>
    ELSE LET above(p) == value.num * 10000 > p * p * value.den
             strength ==
                 IF above(90) THEN "near perfect"
                 ELSE IF above(70) THEN "strong"
                 ELSE IF above(40) THEN "moderate"
                 ELSE IF above(20) THEN "weak"
                 ELSE "minimal or mixed"
             direction ==
                 IF value.sgn >= 0 THEN "alignment" ELSE "inverse alignment"
         IN  << giver, " → ", receiver, ": r = " >> \o Format2f(value)
             \o << ". ", strength, " ", direction, " in ", description, "." >>

\* interpret_correlation with the direction tested by value > 0
interpret_correlation_StrictDirection(giver, receiver, value, description) ==
    IF ~value.def
    THEN << giver, " → ", receiver, ": r is undefined. ",
            "Insufficient variation to assess ", description, "." >>
    ELSE LET strength ==
                 IF AbsAtLeast(value, 90, 100) THEN "near perfect"
                 ELSE IF AbsAtLeast(value, 70, 100) THEN "strong"
                 ELSE IF AbsAtLeast(value, 40, 100) THEN "moderate"
                 ELSE IF AbsAtLeast(value, 20, 100) THEN "weak"
                 ELSE "minimal or mixed"
             direction ==
                 IF value.sgn > 0 THEN "alignment" ELSE "inverse alignment"
         IN  << giver, " → ", receiver, ": r = " >> \o Format2f(value)
             \o << ". ", strength, " ", direction, " in ", description, "." >>

interpret_correlation(giver, receiver, value, description) ==
    IF ~value.def
    THEN << giver, " → ", receiver, ": r is undefined. ",
            "Insufficient variation to assess ", description, "." >>
    ELSE LET strength ==
                 IF AbsAtLeast(value, 90, 100) THEN "near perfect"
                 ELSE IF AbsAtLeast(value, 70, 100) THEN "strong"
                 ELSE IF AbsAtLeast(value, 40, 100) THEN "moderate"
                 ELSE IF AbsAtLeast(value, 20, 100) THEN "weak"
                 ELSE "minimal or mixed"
             direction ==
                 IF value.sgn >= 0 THEN "alignment" ELSE "inverse alignment"
         IN  << giver, " → ", receiver, ": r = " >> \o Format2f(value)
             \o << ". ", strength, " ", direction, " in ", description, "." >>

\* np.argmax returning the last position of the largest value
ArgMax_Last(v) ==
    CHOOSE i \in 1..Len(v) :
        /\ \A j \in 1..Len(v) : v[j] <= v[i]
        /\ \A j \in (i + 1)..Len(v) : v[j] < v[i]

\* np.argmax / np.argmin: the first position of the extreme value
\* (positions count from 1 here, from 0 in the code).
ArgMax(v) ==
    CHOOSE i \in 1..Len(v) :
        /\ \A j \in 1..Len(v) : v[j] <= v[i]
        /\ \A j \in 1..(i - 1) : v[j] < v[i]

ArgMin(v) ==
    CHOOSE i \in 1..Len(v) :
        /\ \A j \in 1..Len(v) : v[j] >= v[i]
        /\ \A j \in 1..(i - 1) : v[j] > v[i]

\* "\n\n".join(summary)
RECURSIVE Join(_)
Join(summary) ==
    IF Len(summary) = 0 THEN << >>
    ELSE IF Len(summary) = 1 THEN summary[1]
    ELSE summary[1] \o << NL, NL >> \o Join(Tail(summary))

Description1 ==
    "how well what they like to give matches what their partner enjoys receiving"
Description2 == "how well their giving style lands for their partner"

\* np.abs(person_a.giving - person_b.receiving)
AbsDifference(person_a, person_b) ==
    [i \in 1..Len(person_a.giving) |->
        Abs(person_a.giving[i] - person_b.receiving[i])]

\* strongest_alignment taken at the last of the largest means
strongest_alignment_Last(person_a, person_b) ==
    LET n == Len(person_a.giving)
        mean2 == [i \in 1..n |-> person_a.giving[i] + person_b.receiving[i]]
    IN  CHOOSE i \in 1..n :
            /\ \A j \in 1..n : mean2[j] <= mean2[i]
            /\ \A j \in (i + 1)..n : mean2[j] < mean2[i]

\* The mean (a.giving + b.receiving) / 2 is compared as the sum, which has
\* the same first maximum.
strongest_alignment(person_a, person_b) ==
    LET n == Len(person_a.giving)
        mean2 == [i \in 1..n |-> person_a.giving[i] + person_b.receiving[i]]
    IN  ArgMax(mean2)

\* closest_alignment taken at the last of the smallest differences
closest_alignment_Last(person_a, person_b) ==
    LET diff == AbsDifference(person_a, person_b)
    IN  CHOOSE i \in 1..Len(diff) :
            /\ \A j \in 1..Len(diff) : diff[j] >= diff[i]
            /\ \A j \in (i + 1)..Len(diff) : diff[j] > diff[i]

closest_alignment(person_a, person_b) ==
    ArgMin(AbsDifference(person_a, person_b))

\* largest_gap over the signed difference giving - receiving
largest_gap_Signed(person_a, person_b) ==
    ArgMax([i \in 1..Len(person_a.giving) |->
               person_a.giving[i] - person_b.receiving[i]])

largest_gap(person_a, person_b) ==
    ArgMax(AbsDifference(person_a, person_b))

\* The summary list of build_explanation before it is joined.
Summary(person_a, person_b, corr_a_to_b, corr_b_to_a) ==
        << interpret_correlation(person_a.name, person_b.name, corr_a_to_b,
                                 Description1),
           interpret_correlation(person_b.name, person_a.name, corr_b_to_a,
                                 Description2),
           << NL, "Greatest shared enthusiasm: ",
              CATEGORIES[strongest_alignment(person_a, person_b)],
              " - both of you score high here." >>,
           << "Most aligned expectations: ",
              CATEGORIES[closest_alignment(person_a, person_b)],
              " - your giving and receiving are closest here." >>,
           << "Largest gap: ", CATEGORIES[largest_gap(person_a, person_b)],
              " - discuss preferences here to bridge differences." >> >>

\* build_explanation with the two directional sentences exchanged
build_explanation_SwappedDirections(person_a, person_b, corr_a_to_b, corr_b_to_a) ==
    LET summary == Summary(person_a, person_b, corr_a_to_b, corr_b_to_a)
    IN  Return(Join(<< summary[2], summary[1], summary[3], summary[4],
                       summary[5] >>))

build_explanation(person_a, person_b, corr_a_to_b, corr_b_to_a) ==
    Return(Join(Summary(person_a, person_b, corr_a_to_b, corr_b_to_a)))

\* ------------------------------------------------- LoveLanguageApp (app.py)
Persons == {"person_a", "person_b"}
Modes == {"giving", "receiving"}
AxisKeys == {"a_to_b", "b_to_a"}

default_names == [person_a |-> "A", person_b |-> "B"]
person_titles == [person_a |-> "Person A", person_b |-> "Person B"]

\* _handle_lookup: the axis and the handle that show (person, mode)
handle_lookup ==
    [person_a |->
        [giving |-> [axis_key |-> "a_to_b", handle_key |-> "giving_handle"],
         receiving |-> [axis_key |-> "b_to_a", handle_key |-> "receiving_handle"]],
     person_b |->
        [giving |-> [axis_key |-> "b_to_a", handle_key |-> "giving_handle"],
         receiving |-> [axis_key |-> "a_to_b", handle_key |-> "receiving_handle"]]]

\* str.strip() on the names the model types into the entry fields
Strip(name) ==
    CASE name = " " -> ""
      [] name = " Ann " -> "Ann"
      [] OTHER -> name

\* np.full(len(CATEGORIES), 5.0), in grid steps
DefaultScores == [i \in 1..Len(CATEGORIES) |-> 50000]

PersonProfile(name, giving, receiving) ==
    [name |-> name, giving |-> giving, receiving |-> receiving]

\* self._angles = np.asarray(polar_angles()) and self._base_angles
app_angles == polar_angles(None).value
base_angles == SubSeq(app_angles, 1, Len(app_angles) - 1)

\* np.clip(value, lo, hi) on finite numbers
Clip(value, lo, hi) == IF value < lo THEN lo ELSE IF value > hi THEN hi ELSE value

\* _gather_profile(key, require_name=...)
gather_profile(names, values, key, require_name) ==
    LET stripped == Strip(names[key])
    IN  IF stripped = "" /\ require_name THEN Raise("ValueError")
        ELSE Return(PersonProfile(
                 IF stripped = "" THEN default_names[key] ELSE stripped,
                 values[key].giving, values[key].receiving))

\* _format_scale_label
format_scale_label(source, target, default_source, default_target) ==
    << IF Strip(source) = "" THEN default_source ELSE Strip(source),
       " → ",
       IF Strip(target) = "" THEN default_target ELSE Strip(target) >>

\* One entry of _scale_markers.  value is None until a report has been
\* generated; artist and label_artist are the drawn marker and its label.
NoArtist == [drawn |-> FALSE]
InitialMarker(label_text) ==
    [has_value |-> FALSE, value |-> NaN, label_text |-> label_text,
     artist |-> NoArtist, label_artist |-> NoArtist]

\* _scale_value_to_coordinate: np.clip(value, -1.0, 1.0); nan stays nan and
\* a coefficient already lies in [-1, 1].
scale_value_to_coordinate(value) == value

\* _draw_scale_marker(key), on an existing scale axis
draw_scale_marker(marker) ==
    IF ~marker.has_value
    THEN [marker EXCEPT !.artist = NoArtist, !.label_artist = NoArtist]
    ELSE LET x_position == scale_value_to_coordinate(marker.value)
         IN  [marker EXCEPT
                !.artist = [drawn |-> TRUE, x |-> x_position],
                !.label_artist =
                    IF marker.label_text # << >>
                    THEN [drawn |-> TRUE, x |-> x_position,
                          text |-> marker.label_text]
                    ELSE NoArtist]

\* The person whose value a handle of an axis shows, by _handle_lookup.
HandleOwner(axis_key, handle_key) ==
    CHOOSE person \in Persons :
        \E mode \in Modes :
            handle_lookup[person][mode] =
                [axis_key |-> axis_key, handle_key |-> handle_key]

\* _update_handle_visibility
update_handle_visibility(artists, active_person) ==
    [key \in AxisKeys |->
        IF ~artists[key].exists THEN artists[key]
        ELSE [artists[key] EXCEPT
                !.giving_handle_visible =
                    (HandleOwner(key, "giving_handle") = active_person),
                !.receiving_handle_visible =
                    (HandleOwner(key, "receiving_handle") = active_person)]]

NoArtists == [exists |-> FALSE]

\* _update_profile_plot: both lines, fills and handles of one axis get the
\* angles and the two closed value loops; new handles start visible.
update_profile_plot(old, angles, giving_values, receiving_values, title) ==
    [exists |-> TRUE,
     angles |-> angles,
     giving_values |-> giving_values,
     receiving_values |-> receiving_values,
     title |-> title,
     giving_handle_visible |->
        IF old.exists THEN old.giving_handle_visible ELSE TRUE,
     receiving_handle_visible |->
        IF old.exists THEN old.receiving_handle_visible ELSE TRUE]

\* _render_plot: the new canvas flag, plot artists and scale markers.  A
\* close_loop that raises ends the call before anything is drawn.  The
\* plot artists hold what the axes are asked to draw.
render_plot(person_a, person_b, active_person, ui) ==
    LET a_giving == close_loop(person_a.giving)
        a_receiving == close_loop(person_a.receiving)
        b_giving == close_loop(person_b.giving)
        b_receiving == close_loop(person_b.receiving)
        labelled ==
            [ui.scale_markers EXCEPT
                !.a_to_b.label_text =
                    format_scale_label(person_a.name, person_b.name,
                                       default_names.person_a,
                                       default_names.person_b),
                !.b_to_a.label_text =
                    format_scale_label(person_b.name, person_a.name,
                                       default_names.person_b,
                                       default_names.person_a)]
        plotted ==
            [a_to_b |->
                update_profile_plot(ui.plot_artists.a_to_b, app_angles,
                    a_giving.value, b_receiving.value,
                    << person_a.name, " → ", person_b.name >>),
             b_to_a |->
                update_profile_plot(ui.plot_artists.b_to_a, app_angles,
                    b_giving.value, a_receiving.value,
                    << person_b.name, " → ", person_a.name >>)]
    IN  IF \E loop \in {a_giving, a_receiving, b_giving, b_receiving} :
              loop.kind = "raise"
        THEN Raise("IndexError")
        ELSE Return(
             [canvas |-> TRUE,
              scale_markers |->
                  [key \in AxisKeys |-> draw_scale_marker(labelled[key])],
              plot_artists |->
                  update_handle_visibility(plotted, active_person)])

\* _update_scale_markers, on an existing scale axis
update_scale_markers(markers, person_a, person_b, corr_a_to_b, corr_b_to_a) ==
    [a_to_b |->
        draw_scale_marker(
            [markers.a_to_b EXCEPT
                !.has_value = TRUE, !.value = corr_a_to_b,
                !.label_text =
                    format_scale_label(person_a.name, person_b.name,
                                       default_names.person_a,
                                       default_names.person_b)]),
     b_to_a |->
        draw_scale_marker(
            [markers.b_to_a EXCEPT
                !.has_value = TRUE, !.value = corr_b_to_a,
                !.label_text =
                    format_scale_label(person_b.name, person_a.name,
                                       default_names.person_b,
                                       default_names.person_a)])]

\* text_var as set by __init__ and by _mark_insights_stale
IntroText ==
    << "Use the toggle to choose whose preferences to adjust, then drag the handles on the radar charts. Click Generate Compatibility Report for detailed insights." >>
StaleText ==
    << "Values updated. Click Generate Compatibility Report to refresh the insights." >>

\* _display_name_for
display_name_for(names, key) ==
    << person_titles[key], ": ",
       IF Strip(names[key]) = "" THEN default_names[key] ELSE Strip(names[key]) >>

OtherPerson(key) == IF key = "person_a" THEN "person_b" ELSE "person_a"

\* _update_switch_appearance: the text of the switch button
switch_text(names, active_key) ==
    << "Switch to " >> \o display_name_for(names, OtherPerson(active_key))

\* _schedule_live_update: cancel the tracked job, queue a new one.  Tk
\* numbers its after-callbacks in sequence (after#N).
schedule_live_update(job, pending, seq) ==
    [timers |-> (IF job.given THEN pending \ {job.n} ELSE pending)
                    \cup {seq + 1},
     live_update_job |-> Some(seq + 1),
     after_seq |-> seq + 1]

\* One full turn in the grid of event angles: 4.5 degrees per step.
TurnUnits == 80
\* _drag_angle_threshold = np.deg2rad(22.5), in steps of that grid
drag_angle_threshold == 5

\* _closest_angle: index (0-based) of the nearest category axis and the
\* distance to it, the distance in steps of 1/(TurnUnits*den) of a turn.
AngularDifference(theta, base) ==
    Abs(((theta * base.den - base.num * TurnUnits
            + (TurnUnits \div 2) * base.den) % (TurnUnits * base.den))
        - (TurnUnits \div 2) * base.den)

closest_angle(theta) ==
    LET differences ==
            [k \in 1..Len(base_angles) |->
                AngularDifference(theta, base_angles[k])]
        index == ArgMin(differences)
    IN  [index |-> index - 1,
         difference |-> differences[index],
         den |-> base_angles[index].den]

\* A coordinate of a canvas event: missing, a number, or not finite.
Missing == [kind |-> "none"]
Number(n) == [kind |-> "num", n |-> n]
NotFinite(kind) == [kind |-> kind]
IsFinite(value) == value.kind = "num"

\* ---------------------------------------------------- profile import (io.py)
\* A JSON value read with dict.get: absent (None) or present.
Absent == [present |-> FALSE]
Present(value) == [present |-> TRUE, value |-> value]

\* A JSON array of numbers, or a value that is not a sequence.
NotASequence == [is_sequence |-> FALSE, items |-> << >>]
Array(items) == [is_sequence |-> TRUE, items |-> items]

\* The floats off the grid: the infinities, which compare as any float
\* does, and nan, which is only ever tested by isnan.
Infinity == 2000000000
FloatNaN == 2147483647

isnan(value) == value = FloatNaN
isfinite(value) == value \notin { FloatNaN, Infinity, -Infinity }

\* np.clip on one element: nan stays nan
np_clip(value, lo, hi) == IF isnan(value) THEN value ELSE Clip(value, lo, hi)

\* io._coerce_values
coerce_values(values) ==
    IF ~values.present \/ ~values.value.is_sequence
    THEN Raise("ProfileDataError")
    ELSE LET numeric == values.value.items
         IN  IF Len(numeric) # Len(CATEGORIES)
             THEN Raise("ProfileDataError")
             ELSE Return([i \in 1..Len(numeric) |->
                             np_clip(numeric[i], 0, 100000)])

\* One person of io.payload_to_profiles
coerce_person(raw) ==
    IF ~raw.present THEN Raise("ProfileDataError")
    ELSE LET giving == coerce_values(raw.value.giving)
             receiving == coerce_values(raw.value.receiving)
         IN  IF giving.kind = "raise" THEN giving
             ELSE IF receiving.kind = "raise" THEN receiving
             ELSE Return(PersonProfile(raw.value.name,
                                       giving.value, receiving.value))

\* io.payload_to_profiles
payload_to_profiles(payload) ==
    LET person_a == coerce_person(payload.person_a)
        person_b == coerce_person(payload.person_b)
    IN  IF person_a.kind = "raise" THEN person_a
        ELSE IF person_b.kind = "raise" THEN person_b
        ELSE Return([person_a |-> person_a.value,
                     person_b |-> person_b.value])

\* -------------------------------------------- profile files (profile_io.py)
PROFILE_SCHEMA == "affection_map_profile"
PROFILE_VERSION == 1

\* profile_io._extract_values
extract_values(payload, key) ==
    LET raw_values == payload[key]
    IN  IF ~raw_values.present \/ ~raw_values.value.is_sequence
        THEN Raise("ValueError")
        ELSE LET array == raw_values.value.items
             IN  IF Len(array) # Len(CATEGORIES) THEN Raise("ValueError")
                 ELSE IF \E i \in 1..Len(array) : ~isfinite(array[i])
                 THEN Raise("ValueError")
                 ELSE IF \E i \in 1..Len(array) :
                            array[i] < 0 \/ array[i] > 100000
                 THEN Raise("ValueError")
                 ELSE Return(array)

\* profile_to_payload with the two vectors exchanged
profile_to_payload_Swapped(profile) ==
    [schema |-> Present(PROFILE_SCHEMA),
     version |-> Present(PROFILE_VERSION),
     name |-> Present(profile.name),
     categories |-> Present(CATEGORIES),
     giving |-> Present(Array(profile.receiving)),
     receiving |-> Present(Array(profile.giving))]

\* profile_io.profile_to_payload; astype(float).tolist() keeps each value
profile_to_payload(profile) ==
    [schema |-> Present(PROFILE_SCHEMA),
     version |-> Present(PROFILE_VERSION),
     name |-> Present(profile.name),
     categories |-> Present(CATEGORIES),
     giving |-> Present(Array(profile.giving)),
     receiving |-> Present(Array(profile.receiving))]

\* payload_to_profile comparing the categories without their order
payload_to_profile_AnyOrder(payload) ==
    IF payload.schema.present /\ payload.schema.value # PROFILE_SCHEMA
    THEN Raise("ValueError")
    ELSE IF payload.version.present /\ payload.version.value # PROFILE_VERSION
    THEN Raise("ValueError")
    ELSE IF /\ payload.categories.present
            /\ { payload.categories.value[i] :
                     i \in 1..Len(payload.categories.value) }
                   # { CATEGORIES[i] : i \in 1..Len(CATEGORIES) }
    THEN Raise("ValueError")
    ELSE IF ~payload.name.present \/ Strip(payload.name.value) = ""
    THEN Raise("ValueError")
    ELSE LET giving == extract_values(payload, "giving")
             receiving == extract_values(payload, "receiving")
         IN  IF giving.kind = "raise" THEN giving
             ELSE IF receiving.kind = "raise" THEN receiving
             ELSE Return(PersonProfile(Strip(payload.name.value),
                                       giving.value, receiving.value))

\* profile_io.payload_to_profile
payload_to_profile(payload) ==
    IF payload.schema.present /\ payload.schema.value # PROFILE_SCHEMA
    THEN Raise("ValueError")
    ELSE IF payload.version.present /\ payload.version.value # PROFILE_VERSION
    THEN Raise("ValueError")
    ELSE IF payload.categories.present /\ payload.categories.value # CATEGORIES
    THEN Raise("ValueError")
    ELSE IF ~payload.name.present \/ Strip(payload.name.value) = ""
    THEN Raise("ValueError")
    ELSE LET giving == extract_values(payload, "giving")
             receiving == extract_values(payload, "receiving")
         IN  IF giving.kind = "raise" THEN giving
             ELSE IF receiving.kind = "raise" THEN receiving
             ELSE Return(PersonProfile(Strip(payload.name.value),
                                       giving.value, receiving.value))

\* json.dump / json.load on a profile payload.  The text is a sequence of
\* tokens; a float is written as repr writes it, the whole part, a point
\* and the decimals without trailing zeros (at least one).
SeqMax(S) == CHOOSE x \in S : \A y \in S : y <= x

FloatRepr(value) ==
    LET frac == value % 10000
        digits == << frac \div 1000, (frac \div 100) % 10,
                     (frac \div 10) % 10, frac % 10 >>
        last == SeqMax({ 1 } \cup { i \in 1..4 : digits[i] # 0 })
    IN  << ToString(value \div 10000), "." >>
        \o [i \in 1..last |-> ToString(digits[i])]

ParseInt(token) == CHOOSE n \in 0..10 : ToString(n) = token

RECURSIVE ParseDecimals(_, _)
ParseDecimals(tokens, weight) ==
    IF Len(tokens) = 0 THEN 0
    ELSE ParseInt(tokens[1]) * weight
         + ParseDecimals(Tail(tokens), weight \div 10)

ParseFloat(tokens) ==
    ParseInt(tokens[1]) * 10000
    + ParseDecimals(SubSeq(tokens, 3, Len(tokens)), 1000)

Quote(string) == << "\"", string, "\"" >>

RECURSIVE JoinItems(_)
JoinItems(items) ==
    IF Len(items) = 0 THEN << >>
    ELSE IF Len(items) = 1 THEN items[1]
    ELSE items[1] \o << "," >> \o JoinItems(Tail(items))

PayloadKeys ==
    << "schema", "version", "name", "categories", "giving", "receiving" >>

\* The text of one value of the payload that profile_to_payload builds.
EncodeValue(key, value) ==
    CASE key \in { "schema", "name" } -> Quote(value)
      [] key = "version" -> << ToString(value) >>
      [] key = "categories" ->
             << "[" >> \o JoinItems([i \in 1..Len(value) |-> Quote(value[i])])
             \o << "]" >>
      [] OTHER ->
             << "[" >>
             \o JoinItems([i \in 1..Len(value.items) |->
                              FloatRepr(value.items[i])])
             \o << "]" >>

json_dump(payload) ==
    << "{" >>
    \o JoinItems([i \in 1..Len(PayloadKeys) |->
                     << PayloadKeys[i], ":" >>
                     \o EncodeValue(PayloadKeys[i],
                                    payload[PayloadKeys[i]].value)])
    \o << "}" >>

\* The first position from start on that holds one of the tokens.
Find(text, tokens, start) ==
    CHOOSE i \in start..Len(text) :
        /\ text[i] \in tokens
        /\ \A j \in start..(i - 1) : text[j] \notin tokens

RECURSIVE SplitItems(_)
SplitItems(tokens) ==
    IF \A i \in 1..Len(tokens) : tokens[i] # "," THEN << tokens >>
    ELSE LET i == Find(tokens, { "," }, 1)
         IN  << SubSeq(tokens, 1, i - 1) >>
             \o SplitItems(SubSeq(tokens, i + 1, Len(tokens)))

\* The value that starts at position p of the text.
DecodeValue(text, p) ==
    IF text[p] = "\"" THEN text[p + 1]
    ELSE IF text[p] = "["
    THEN LET items == SplitItems(SubSeq(text, p + 1,
                                        Find(text, { "]" }, p) - 1))
         IN  IF items[1][1] = "\""
             THEN [i \in 1..Len(items) |-> items[i][2]]
             ELSE Array([i \in 1..Len(items) |-> ParseFloat(items[i])])
    ELSE ParseInt(text[p])

json_load(text) ==
    [key \in { PayloadKeys[i] : i \in 1..Len(PayloadKeys) } |->
        IF \E p \in 1..(Len(text) - 1) : text[p] = key /\ text[p + 1] = ":"
        THEN LET p == CHOOSE q \in 1..(Len(text) - 1) :
                          text[q] = key /\ text[q + 1] = ":"
             IN  Present(DecodeValue(text, p + 2))
        ELSE Absent]

\* profile_io.dump_profile_to_file: the text written to the file
dump_profile_to_file(profile) == json_dump(profile_to_payload(profile))

\* profile_io.load_profile_from_file on the text of a file
load_profile_from_file(text) == payload_to_profile(json_load(text))

\* ------------------------------ ProfileInputPanel (ui/input_controls.py)
\* _build_person_section: name_var holds the last word of the frame title,
\* every DoubleVar holds 5.0.
person_section(title_word) ==
    [name_var |-> title_word,
     giving |-> [c \in 1..Len(CATEGORIES) |-> 50000],
     receiving |-> [c \in 1..Len(CATEGORIES) |-> 50000]]

\* person_id.title()
Title(person_id) == IF person_id = "person_a" THEN "Person_A" ELSE "Person_B"

\* _build_profile: one value per category, read from the controls
build_profile(person_id, controls) ==
    PersonProfile(
        IF Strip(controls.name_var) = "" THEN Title(person_id)
        ELSE Strip(controls.name_var),
        [c \in 1..Len(CATEGORIES) |-> controls.giving[c]],
        [c \in 1..Len(CATEGORIES) |-> controls.receiving[c]])

\* ProfileInputPanel.profiles
profiles(controls) ==
    [person_id \in Persons |-> build_profile(person_id, controls[person_id])]

\* The panel while set_profiles runs: the controls, _suspend_callbacks, the
\* arguments on_profiles_changed has been called with so far, and whether
\* an exception is on its way out of the loop.
\* _notify_change, the trace of every variable of the panel
run_notify_change(state) ==
    IF state.suspend_callbacks THEN state
    ELSE [state EXCEPT !.notified = Append(@, profiles(state.people))]

\* _set_value: min(10.0, max(0.0, value)) is written and the trace of the
\* variable runs.  Python's max and min let the second argument win only if
\* its comparison with the first is true, which it never is for nan.
set_value(state, person_id, mode, c, value) ==
    LET PyMax(first, second) ==
            IF ~isnan(second) /\ second > first THEN second ELSE first
        PyMin(first, second) ==
            IF ~isnan(second) /\ second < first THEN second ELSE first
    IN  run_notify_change(
            [state EXCEPT !.people[person_id][mode][c] =
                              PyMin(100000, PyMax(0, value))])

\* for category, value in zip(CATEGORIES, values): _set_value(..., float(value))
\* from category c on; float(None) raises TypeError and ends the loop.
RECURSIVE set_values(_, _, _, _, _)
set_values(state, person_id, mode, values, c) ==
    LET PyFloat(item) == IF item.kind = "num" THEN item.n
                         ELSE IF item.kind = "nan" THEN FloatNaN
                         ELSE Infinity
    IN  IF c > Len(values) \/ c > Len(CATEGORIES) THEN state
        ELSE IF values[c] = Missing THEN [state EXCEPT !.raised = TRUE]
        ELSE set_values(
                 set_value(state, person_id, mode, c, PyFloat(values[c])),
                 person_id, mode, values, c + 1)

\* The body of the loop of set_profiles for one person
set_person(state, person_id, profile) ==
    IF state.raised \/ ~profile.present THEN state
    ELSE LET named == run_notify_change(
                          [state EXCEPT !.people[person_id].name_var =
                                            profile.value.name])
             given == set_values(named, person_id, "giving",
                                 profile.value.giving, 1)
         IN  IF given.raised THEN given
             ELSE set_values(given, person_id, "receiving",
                             profile.value.receiving, 1)

\* ProfileInputPanel.set_profiles without _suspend_callbacks = True
set_profiles_NotSuspended(controls, supplied) ==
    LET entered == [people |-> controls, suspend_callbacks |-> FALSE,
                    notified |-> << >>, raised |-> FALSE]
        first == set_person(entered, "person_a", supplied.person_a)
        second == set_person(first, "person_b", supplied.person_b)
    IN  run_notify_change([second EXCEPT !.suspend_callbacks = FALSE])

\* ProfileInputPanel.set_profiles: the try block over self._people in the
\* order of insertion, then the finally block
set_profiles(controls, supplied) ==
    LET entered == [people |-> controls, suspend_callbacks |-> TRUE,
                    notified |-> << >>, raised |-> FALSE]
        first == set_person(entered, "person_a", supplied.person_a)
        second == set_person(first, "person_b", supplied.person_b)
    IN  run_notify_change([second EXCEPT !.suspend_callbacks = FALSE])
\* ---------------------------------------- RadarPlotPanel (ui/plot_panel.py)
\* self._angles = np.asarray(polar_angles())
panel_angles == polar_angles(None).value

\* _format_subtitle without the test for a finite value
format_subtitle_Unguarded(value) ==
    << "Giving matches receiving (r = ", Format2f(value), ")" >>

\* _format_subtitle
format_subtitle(value) ==
    IF value.def
    THEN << "Giving matches receiving (r = ", Format2f(value), ")" >>
    ELSE << "Giving matches receiving (r undefined)" >>

NoSeries == [plotted |-> FALSE]

\* _plot_series: what the axis is asked to draw
plot_series(angles, giving_values, receiving_values, title, subtitle) ==
    [plotted |-> TRUE,
     angles |-> angles,
     giving_values |-> giving_values,
     receiving_values |-> receiving_values,
     title |-> title,
     subtitle |-> subtitle]

\* RadarPlotPanel.render: the panel after the call.  Both axes are cleared
\* first; a close_loop that raises ends the call where it stands.
render(old, person_a, person_b, correlations) ==
    LET used == IF correlations.present THEN correlations.value
                ELSE old.last_correlations
        started ==
            [old EXCEPT
                !.last_profiles = Present(<< person_a, person_b >>),
                !.last_correlations = used,
                !.series = [key \in AxisKeys |-> NoSeries]]
        a_loop == close_loop(person_a.giving)
        b_loop == close_loop(person_b.receiving)
        b_giving == close_loop(person_b.giving)
        a_receiving == close_loop(person_a.receiving)
        left == plot_series(panel_angles, a_loop.value, b_loop.value,
                            << person_a.name, " → ", person_b.name >>,
                            format_subtitle(used[1]))
        right == plot_series(panel_angles, b_giving.value, a_receiving.value,
                             << person_b.name, " → ", person_a.name >>,
                             format_subtitle(used[2]))
    IN  IF a_loop.kind = "raise" \/ b_loop.kind = "raise" THEN started
        ELSE IF b_giving.kind = "raise" \/ a_receiving.kind = "raise"
        THEN [started EXCEPT !.series.a_to_b = left]
        ELSE [started EXCEPT !.series.a_to_b = left, !.series.b_to_a = right]

\* ------------------------------------------------------------------ state
\* call, ret: the operation of the analysis core under way, its arguments
\*     and its outcome.
\* entry: the program that runs: the analysis core on its own ("analysis"),
\*     LoveLanguageApp ("app") or the panels of the ui package ("ui").
\* steps: the number of events handled so far.
\* name_var .. scale_markers: the fields of LoveLanguageApp; scores holds
\*     the giving and receiving arrays of self._profiles, timers the
\*     callbacks pending in the Tk event loop, after_seq the number of the
\*     last one queued.
\* people: the controls of ProfileInputPanel; panel: RadarPlotPanel.
VARIABLES call, ret, entry, steps,
          name_var, scores, active_person_var, switch_button_text,
          drag_state, live_update_job, timers, after_seq,
          insights_current, text_var, canvas, plot_artists, scale_markers,
          report_inputs, people, panel

corevars == << call, ret >>
appvars == << name_var, scores, active_person_var, switch_button_text,
              drag_state, live_update_job, timers, after_seq,
              insights_current, text_var, canvas, plot_artists,
              scale_markers, report_inputs >>
uivars == << people, panel >>
vars == << corevars, entry, steps, appvars, uivars >>

Pending == [kind |-> "pending"]
NoCall == [op |-> "none"]
NoDrag == [active |-> FALSE]

\* LoveLanguageApp.__init__
AppConstructed ==
    /\ name_var = default_names
    /\ scores = [key \in Persons |->
                    [giving |-> DefaultScores, receiving |-> DefaultScores]]
    /\ active_person_var = "person_a"
    /\ switch_button_text = switch_text(default_names, "person_a")
    /\ drag_state = NoDrag
    /\ live_update_job = None
    /\ timers = {1}
    /\ after_seq = 1
    /\ insights_current = FALSE
    /\ text_var = IntroText
    /\ canvas = FALSE
    /\ plot_artists = [key \in AxisKeys |-> NoArtists]
    /\ scale_markers = [a_to_b |-> InitialMarker(<< "A", " → ", "B" >>),
                        b_to_a |-> InitialMarker(<< "B", " → ", "A" >>)]
    /\ report_inputs = Absent

\* ProfileInputPanel.__init__ and RadarPlotPanel.__init__
PanelsConstructed ==
    /\ people = [person_a |-> person_section("A"),
                 person_b |-> person_section("B")]
    /\ panel = [theme |-> "Classic",
                last_profiles |-> Absent,
                last_correlations |-> << Coef(0, 0, 1), Coef(0, 0, 1) >>,
                series |-> [key \in AxisKeys |-> NoSeries]]

Slopes == (-MaxSlope..MaxSlope) \ {0}
Offsets == -MaxOffset..MaxOffset

\* a*x + b, element by element
Affine(x, a, b) == [i \in 1..Len(x) |-> a * x[i] + b]

CountArgs == {None} \cup { Some(n) : n \in -MaxCount..MaxCount }

ScoreVectors == [1..Len(CATEGORIES) -> 0..MaxScore]

\* vectors whose every value is at the bottom or at the top of the range
ExtremeVectors == [1..Len(CATEGORIES) -> {0, MaxScore}]

NamePairs == { << "Ann", "Bob" >>, << "Ann", "Ann" >> }

\* nan, -0.75 and 0.1
CoefInputs == { NaN, Coef(-1, 9, 16), Coef(1, 1, 100) }

\* The caller is about to apply one operation of the analysis core to
\* arguments of its choice.
InitCorrelation ==
    \E x \in Vectors, y \in Vectors :
        call = [op |-> "correlation", first |-> x, second |-> y]

InitCorrelationAffine ==
    \E x \in Vectors, a \in Slopes, b \in Offsets :
        call = [op |-> "correlation", first |-> x, second |-> Affine(x, a, b)]

InitCloseLoop ==
    \E v \in Vectors : call = [op |-> "close_loop", values |-> v]

InitPolarAngles ==
    \E c \in CountArgs : call = [op |-> "polar_angles", category_count |-> c]

\* The scores 8, 2, 5, 9, 1 given and 7, 3, 4, 8, 2 received.
ScenarioGiving == << 80000, 20000, 50000, 90000, 10000 >>
ScenarioReceiving == << 70000, 30000, 40000, 80000, 20000 >>

InitBuildExplanation ==
    \E names \in NamePairs, cab \in CoefInputs, cba \in CoefInputs :
        \/ \E g \in ScoreVectors, r \in ExtremeVectors :
              call = [op |-> "build_explanation",
                      person_a |-> PersonProfile(names[1], g, DefaultScores),
                      person_b |-> PersonProfile(names[2], DefaultScores, r),
                      corr_a_to_b |-> cab,
                      corr_b_to_a |-> cba]
        \/ call = [op |-> "build_explanation",
                   person_a |-> PersonProfile(names[1], ScenarioGiving,
                                              DefaultScores),
                   person_b |-> PersonProfile(names[2], DefaultScores,
                                              ScenarioReceiving),
                   corr_a_to_b |-> cab,
                   corr_b_to_a |-> cba]

InitAnalysis ==
    /\ ret = Pending
    /\ entry = "analysis"
    /\ steps = 0
    /\ AppConstructed
    /\ PanelsConstructed

Init ==
    /\ InitAnalysis
    /\ \/ InitCorrelation
       \/ InitCorrelationAffine
       \/ InitCloseLoop
       \/ InitPolarAngles

CallCorrelation ==
    /\ ret = Pending
    /\ call.op = "correlation"
    /\ ret' = correlation(call.first, call.second)
    /\ UNCHANGED << call, entry, steps, appvars, uivars >>

CallCloseLoop ==
    /\ ret = Pending
    /\ call.op = "close_loop"
    /\ ret' = close_loop(call.values)
    /\ UNCHANGED << call, entry, steps, appvars, uivars >>

CallPolarAngles ==
    /\ ret = Pending
    /\ call.op = "polar_angles"
    /\ ret' = polar_angles(call.category_count)
    /\ UNCHANGED << call, entry, steps, appvars, uivars >>

Next ==
    \/ CallCorrelation
    \/ CallCloseLoop
    \/ CallPolarAngles

Spec == Init /\ [][Next]_vars

\* The narrative generator on its own.
InitExplain ==
    /\ InitAnalysis
    /\ InitBuildExplanation

CallBuildExplanation ==
    /\ ret = Pending
    /\ call.op = "build_explanation"
    /\ ret' = build_explanation(call.person_a, call.person_b,
                                call.corr_a_to_b, call.corr_b_to_a)
    /\ UNCHANGED << call, entry, steps, appvars, uivars >>

NextExplain == CallBuildExplanation

SpecExplain == InitExplain /\ [][NextExplain]_vars

\* The two places that word a coefficient, on their own.  The coefficients
\* are nan and the fractions k / Resolution, on which every threshold of
\* interpret_correlation is met exactly.
Resolution == 100

CoefOf(k, q) ==
    Coef(IF k > 0 THEN 1 ELSE IF k < 0 THEN -1 ELSE 0, k * k, q * q)

InitInterpretCorrelation ==
    \E names \in NamePairs :
        \/ \E k \in -Resolution..Resolution :
              call = [op |-> "interpret_correlation",
                      giver |-> names[1], receiver |-> names[2],
                      r |-> Present([num |-> k, den |-> Resolution]),
                      value |-> CoefOf(k, Resolution),
                      description |-> Description1]
        \/ call = [op |-> "interpret_correlation",
                   giver |-> names[1], receiver |-> names[2],
                   r |-> Absent, value |-> NaN,
                   description |-> Description1]

InitFormatSubtitle ==
    \/ \E k \in -Resolution..Resolution :
          call = [op |-> "format_subtitle",
                  r |-> Present([num |-> k, den |-> Resolution]),
                  value |-> CoefOf(k, Resolution)]
    \/ call = [op |-> "format_subtitle", r |-> Absent, value |-> NaN]

InitInterpret ==
    /\ InitAnalysis
    /\ InitInterpretCorrelation \/ InitFormatSubtitle

CallInterpretCorrelation ==
    /\ ret = Pending
    /\ call.op = "interpret_correlation"
    /\ ret' = Return(interpret_correlation(call.giver, call.receiver,
                                           call.value, call.description))
    /\ UNCHANGED << call, entry, steps, appvars, uivars >>

CallFormatSubtitle ==
    /\ ret = Pending
    /\ call.op = "format_subtitle"
    /\ ret' = Return(format_subtitle(call.value))
    /\ UNCHANGED << call, entry, steps, appvars, uivars >>

NextInterpret == CallInterpretCorrelation \/ CallFormatSubtitle

SpecInterpret == InitInterpret /\ [][NextInterpret]_vars

\* ------------------------------------------- LoveLanguageApp: the handlers
NameInputs == { "", " ", "Ann" }
Buttons == { 1, 3 }
EventAxes == { "none", "a_to_b", "b_to_a", "scale" }
\* on an axis, 9 degrees past the next, midway between two, 9 degrees short
Thetas == { 0, 18, 8, 78 }
YData == { Missing, NotFinite("nan"), NotFinite("inf"),
           Number(-20000), Number(30000), Number(120000) }

UI == [canvas |-> canvas, plot_artists |-> plot_artists,
       scale_markers |-> scale_markers]

SetUI(ui) ==
    /\ canvas' = ui.canvas
    /\ plot_artists' = ui.plot_artists
    /\ scale_markers' = ui.scale_markers

\* _mark_insights_stale
mark_insights_stale ==
    IF insights_current
    THEN text_var' = StaleText /\ insights_current' = FALSE
    ELSE UNCHANGED << text_var, insights_current >>

\* _update_visuals_from_profiles, from the arrays `values`: the outcome of
\* _render_plot on the gathered profiles
update_visuals_from_profiles(values) ==
    render_plot(
        gather_profile(name_var, values, "person_a", FALSE).value,
        gather_profile(name_var, values, "person_b", FALSE).value,
        active_person_var, UI)

\* _set_profile_value storing the coordinate as it arrives, without np.clip
set_profile_value_Unclamped(person_key, mode, index, value) ==
    IF ~IsFinite(value)
    THEN UNCHANGED << scores, text_var, insights_current,
                      canvas, plot_artists, scale_markers >>
    ELSE LET updated == [scores EXCEPT ![person_key][mode][index + 1] = value.n]
             rendered == update_visuals_from_profiles(updated)
         IN  /\ scores' = updated
             /\ mark_insights_stale
             /\ IF rendered.kind = "raise"
                THEN UNCHANGED << canvas, plot_artists, scale_markers >>
                ELSE SetUI(rendered.value)
\* _set_profile_value
set_profile_value(person_key, mode, index, value) ==
    IF ~IsFinite(value)
    THEN UNCHANGED << scores, text_var, insights_current,
                      canvas, plot_artists, scale_markers >>
    ELSE LET clamped == Clip(value.n, 0, 100000)
             updated == [scores EXCEPT ![person_key][mode][index + 1] = clamped]
             rendered == update_visuals_from_profiles(updated)
         IN  /\ scores' = updated
             /\ mark_insights_stale
             /\ IF rendered.kind = "raise"
                THEN UNCHANGED << canvas, plot_artists, scale_markers >>
                ELSE SetUI(rendered.value)

\* _refresh_live_preview that clears the job and draws nothing
refresh_live_preview_NoRender ==
    /\ entry = "app"
    /\ \E job \in timers : timers' = timers \ {job}
    /\ live_update_job' = None
    /\ UNCHANGED << corevars, entry, steps, name_var, scores,
                    active_person_var, switch_button_text, drag_state,
                    after_seq, insights_current, text_var, canvas,
                    plot_artists, scale_markers, report_inputs, uivars >>

\* The event loop runs a pending callback: _refresh_live_preview.  The
\* callbacks that can run are those the capped user events have queued.
refresh_live_preview ==
    /\ entry = "app"
    /\ \E job \in timers : timers' = timers \ {job}
    /\ live_update_job' = None
    /\ LET rendered == update_visuals_from_profiles(scores)
       IN  IF rendered.kind = "raise"
           THEN UNCHANGED << canvas, plot_artists, scale_markers,
                             text_var, insights_current >>
           ELSE SetUI(rendered.value) /\ mark_insights_stale
    /\ UNCHANGED << corevars, entry, steps, name_var, scores,
                    active_person_var, switch_button_text, drag_state,
                    after_seq, report_inputs, uivars >>

\* The user edits a name entry: the trace on name_var runs _on_name_change.
on_name_change ==
    /\ entry = "app"
    /\ steps < MaxSteps
    /\ \E key \in Persons : \E name \in NameInputs \ {name_var[key]} :
        LET names == [name_var EXCEPT ![key] = name]
            queued == schedule_live_update(live_update_job, timers, after_seq)
        IN  /\ name_var' = names
            /\ switch_button_text' = switch_text(names, active_person_var)
            /\ timers' = queued.timers
            /\ live_update_job' = queued.live_update_job
            /\ after_seq' = queued.after_seq
    /\ steps' = steps + 1
    /\ UNCHANGED << corevars, entry, scores, active_person_var, drag_state,
                    insights_current, text_var, canvas, plot_artists,
                    scale_markers, report_inputs, uivars >>

\* A name entry loses the focus: _handle_focus_out.  Restoring the default
\* name writes name_var, so _on_name_change schedules once more before.
handle_focus_out ==
    /\ entry = "app"
    /\ steps < MaxSteps
    /\ \E key \in Persons :
        LET blank == Strip(name_var[key]) = ""
            names == IF blank
                     THEN [name_var EXCEPT ![key] = default_names[key]]
                     ELSE name_var
            first == IF blank
                     THEN schedule_live_update(live_update_job, timers,
                                               after_seq)
                     ELSE [timers |-> timers,
                           live_update_job |-> live_update_job,
                           after_seq |-> after_seq]
            queued == schedule_live_update(first.live_update_job,
                                           first.timers, first.after_seq)
        IN  /\ name_var' = names
            /\ switch_button_text' =
                   IF blank THEN switch_text(names, active_person_var)
                   ELSE switch_button_text
            /\ timers' = queued.timers
            /\ live_update_job' = queued.live_update_job
            /\ after_seq' = queued.after_seq
    /\ steps' = steps + 1
    /\ UNCHANGED << corevars, entry, scores, active_person_var, drag_state,
                    insights_current, text_var, canvas, plot_artists,
                    scale_markers, report_inputs, uivars >>

\* The user clicks the switch: the Checkbutton flips _active_person_var and
\* runs _on_active_person_changed.
on_active_person_changed ==
    /\ entry = "app"
    /\ steps < MaxSteps
    /\ active_person_var' = OtherPerson(active_person_var)
    /\ switch_button_text' = switch_text(name_var, active_person_var')
    /\ plot_artists' = update_handle_visibility(plot_artists,
                                                active_person_var')
    /\ steps' = steps + 1
    /\ UNCHANGED << corevars, entry, name_var, scores, drag_state,
                    live_update_job, timers, after_seq, insights_current,
                    text_var, canvas, scale_markers, report_inputs, uivars >>

\* _on_generate with _render_report.  A blank name ends the handler with an
\* error dialog; the warning about untouched profiles is a dialog only.
on_generate ==
    /\ entry = "app"
    /\ steps < MaxSteps
    /\ LET person_a == gather_profile(name_var, scores, "person_a", TRUE)
           person_b == gather_profile(name_var, scores, "person_b", TRUE)
           corr_a_to_b == correlation(person_a.value.giving,
                                      person_b.value.receiving)
           corr_b_to_a == correlation(person_b.value.giving,
                                      person_a.value.receiving)
           rendered == render_plot(person_a.value, person_b.value,
                                   active_person_var, UI)
       IN  IF person_a.kind = "raise" \/ person_b.kind = "raise"
           THEN UNCHANGED << text_var, insights_current, canvas,
                             plot_artists, scale_markers, report_inputs >>
           ELSE IF \/ corr_a_to_b.kind = "raise" \/ corr_b_to_a.kind = "raise"
                   \/ rendered.kind = "raise"
           THEN UNCHANGED << text_var, insights_current, canvas,
                             plot_artists, scale_markers, report_inputs >>
           ELSE /\ report_inputs' =
                       Present([names |-> name_var, scores |-> scores])
                /\ text_var' = build_explanation(
                                   person_a.value, person_b.value,
                                   corr_a_to_b.value, corr_b_to_a.value).value
                /\ insights_current' = TRUE
                /\ canvas' = rendered.value.canvas
                /\ plot_artists' = rendered.value.plot_artists
                /\ scale_markers' =
                       update_scale_markers(
                           rendered.value.scale_markers,
                           person_a.value, person_b.value,
                           corr_a_to_b.value, corr_b_to_a.value)
    /\ steps' = steps + 1
    /\ UNCHANGED << corevars, entry, name_var, scores, active_person_var,
                    switch_button_text, drag_state, live_update_job, timers,
                    after_seq, uivars >>

HandleVisible(artists, handle_key) ==
    IF handle_key = "giving_handle" THEN artists.giving_handle_visible
    ELSE artists.receiving_handle_visible

\* _on_canvas_press: whether the loop of the handler stops at `mode`
PressHits(mode, inaxes, theta) ==
    LET lookup == handle_lookup[active_person_var][mode]
        artists == plot_artists[lookup.axis_key]
        closest == closest_angle(theta)
    IN  /\ artists.exists
        /\ HandleVisible(artists, lookup.handle_key)
        /\ inaxes = lookup.axis_key
        /\ closest.difference <= drag_angle_threshold * closest.den

\* _on_canvas_press(event)
canvas_press(button, inaxes, xdata, ydata) ==
    /\ entry = "app"
    /\ steps < MaxSteps
    /\ canvas
    /\ IF \/ button # 1 \/ inaxes = "none"
           \/ xdata = Missing \/ ydata = Missing
           \/ \A mode \in Modes : ~PressHits(mode, inaxes, xdata.n)
        THEN UNCHANGED << drag_state, scores, text_var, insights_current,
                          canvas, plot_artists, scale_markers >>
        ELSE LET mode == IF PressHits("giving", inaxes, xdata.n)
                         THEN "giving" ELSE "receiving"
                 index == closest_angle(xdata.n).index
             IN  /\ drag_state' =
                        [active |-> TRUE,
                         person |-> active_person_var,
                         mode |-> mode,
                         index |-> index,
                         axis_key |->
                             handle_lookup[active_person_var][mode].axis_key]
                 /\ set_profile_value(active_person_var, mode, index, ydata)
    /\ steps' = steps + 1
    /\ UNCHANGED << corevars, entry, name_var, active_person_var,
                    switch_button_text, live_update_job, timers, after_seq,
                    report_inputs, uivars >>

\* The press events the canvas delivers once it exists: every left-button
\* press inside a chart, and one press each with another button, outside
\* every axes, on the scale axis and without an angle.
PressEvents ==
    { [button |-> 1, inaxes |-> inaxes, xdata |-> Number(theta),
       ydata |-> ydata] :
          inaxes \in AxisKeys, theta \in Thetas, ydata \in YData }
    \cup
    { [button |-> 3, inaxes |-> "a_to_b", xdata |-> Number(0),
       ydata |-> Number(30000)],
      [button |-> 1, inaxes |-> "none", xdata |-> Missing,
       ydata |-> Missing],
      [button |-> 1, inaxes |-> "scale", xdata |-> Number(0),
       ydata |-> Number(30000)],
      [button |-> 1, inaxes |-> "a_to_b", xdata |-> Missing,
       ydata |-> Number(30000)] }

on_canvas_press ==
    \E event \in PressEvents :
        canvas_press(event.button, event.inaxes, event.xdata, event.ydata)

\* _on_canvas_motion(event)
canvas_motion(inaxes, ydata) ==
    /\ entry = "app"
    /\ steps < MaxSteps
    /\ canvas
    /\ IF \/ ~drag_state.active
           \/ ~plot_artists[drag_state.axis_key].exists
           \/ inaxes # drag_state.axis_key
           \/ ydata = Missing
        THEN UNCHANGED << scores, text_var, insights_current,
                          canvas, plot_artists, scale_markers >>
        ELSE set_profile_value(drag_state.person, drag_state.mode,
                               drag_state.index, ydata)
    /\ steps' = steps + 1
    /\ UNCHANGED << corevars, entry, name_var, active_person_var,
                    switch_button_text, drag_state, live_update_job, timers,
                    after_seq, report_inputs, uivars >>

on_canvas_motion ==
    \E inaxes \in EventAxes, ydata \in YData : canvas_motion(inaxes, ydata)

\* _on_canvas_release leaving the drag as it is
canvas_release_KeepsDrag(button) ==
    /\ entry = "app"
    /\ steps < MaxSteps
    /\ canvas
    /\ steps' = steps + 1
    /\ UNCHANGED << corevars, entry, name_var, scores, active_person_var,
                    switch_button_text, drag_state, live_update_job, timers,
                    after_seq, insights_current, text_var, canvas,
                    plot_artists, scale_markers, report_inputs, uivars >>

\* _on_canvas_release(event)
canvas_release(button) ==
    /\ entry = "app"
    /\ steps < MaxSteps
    /\ canvas
    /\ drag_state' = IF button # 1 THEN drag_state ELSE NoDrag
    /\ steps' = steps + 1
    /\ UNCHANGED << corevars, entry, name_var, scores, active_person_var,
                    switch_button_text, live_update_job, timers, after_seq,
                    insights_current, text_var, canvas, plot_artists,
                    scale_markers, report_inputs, uivars >>

on_canvas_release == \E button \in Buttons : canvas_release(button)

NextApp ==
    \/ refresh_live_preview
    \/ on_name_change
    \/ handle_focus_out
    \/ on_active_person_changed
    \/ on_generate
    \/ on_canvas_motion
    \/ on_canvas_press
    \/ on_canvas_release

\* ----------------------------------------------- ui package: the handlers
ControlValues == { 0, 100000 }
ThemeNames == { "Classic", "Sunset", "Forest" }
PayloadLengths == (Len(CATEGORIES) - 1)..(Len(CATEGORIES) + MaxExtra)
PayloadValues == { -10000, 70000, 120000 }
PayloadArrays ==
    { NotASequence } \cup
    { Array([i \in 1..n |-> v]) : n \in PayloadLengths, v \in PayloadValues }

\* what json.load may hand to io.payload_to_profiles
IoPerson(name, giving, receiving) ==
    Present([name |-> name, giving |-> Present(giving),
             receiving |-> Present(receiving)])
IoPayloads ==
    { [person_a |-> IoPerson("Ann", g, Array(DefaultScores)),
       person_b |-> IoPerson("Bob", Array(DefaultScores), r)] :
          g \in PayloadArrays, r \in PayloadArrays }
    \cup
    { [person_a |-> IoPerson("Ann", g, Array(DefaultScores)),
       person_b |-> Absent] : g \in PayloadArrays }

\* what json.load may hand to profile_io.payload_to_profile
FilePayloads ==
    { [schema |-> schema,
       version |-> Present(PROFILE_VERSION),
       categories |-> Present(CATEGORIES),
       name |-> Present(" Ann "),
       giving |-> Present(g),
       receiving |-> Present(Array(DefaultScores))] :
          schema \in { Absent, Present("other") }, g \in PayloadArrays }

\* the correlations argument of RadarPlotPanel.render
CorrelationArgs == { Absent, Present(<< NaN, Coef(-1, 9, 16) >>) }

\* The user moves a scale or edits a name of ProfileInputPanel: the variable
\* is written and its trace runs _notify_change, which hands profiles() to
\* the callback of the panel's owner.
notify_change ==
    /\ entry = "ui"
    /\ steps < MaxPanelSteps
    /\ \/ \E person_id \in Persons, mode \in Modes,
             c \in 1..Len(CATEGORIES), value \in ControlValues :
            people' = [people EXCEPT ![person_id][mode][c] = value]
       \/ \E person_id \in Persons, name \in NameInputs :
            people' = [people EXCEPT ![person_id].name_var = name]
    /\ steps' = steps + 1
    /\ UNCHANGED << corevars, entry, appvars, panel >>

\* RadarPlotPanel.render on the profiles of ProfileInputPanel.profiles()
render_inputs ==
    /\ entry = "ui"
    /\ steps < MaxPanelSteps
    /\ \E correlations \in CorrelationArgs :
        panel' = render(panel, profiles(people).person_a,
                        profiles(people).person_b, correlations)
    /\ steps' = steps + 1
    /\ UNCHANGED << corevars, entry, appvars, people >>

\* RadarPlotPanel.render on the profiles io.payload_to_profiles returns; a
\* rejected payload renders nothing
render_imported ==
    /\ entry = "ui"
    /\ steps < MaxPanelSteps
    /\ \E payload \in IoPayloads, correlations \in CorrelationArgs :
        LET loaded == payload_to_profiles(payload)
        IN  panel' = IF loaded.kind = "raise" THEN panel
                     ELSE render(panel, loaded.value.person_a,
                                 loaded.value.person_b, correlations)
    /\ steps' = steps + 1
    /\ UNCHANGED << corevars, entry, appvars, people >>

\* RadarPlotPanel.render on two profiles profile_io.payload_to_profile
\* returns; a rejected payload renders nothing
render_loaded ==
    /\ entry = "ui"
    /\ steps < MaxPanelSteps
    /\ \E payload_a \in FilePayloads, payload_b \in FilePayloads,
          correlations \in CorrelationArgs :
        LET person_a == payload_to_profile(payload_a)
            person_b == payload_to_profile(payload_b)
        IN  panel' = IF person_a.kind = "raise" \/ person_b.kind = "raise"
                     THEN panel
                     ELSE render(panel, person_a.value, person_b.value,
                                 correlations)
    /\ steps' = steps + 1
    /\ UNCHANGED << corevars, entry, appvars, people >>

\* RadarPlotPanel.set_theme
set_theme ==
    /\ entry = "ui"
    /\ steps < MaxPanelSteps
    /\ \E theme \in ThemeNames :
        LET themed == [panel EXCEPT !.theme = theme]
        IN  panel' = IF panel.last_profiles.present
                     THEN render(themed, panel.last_profiles.value[1],
                                 panel.last_profiles.value[2],
                                 Present(panel.last_correlations))
                     ELSE themed
    /\ steps' = steps + 1
    /\ UNCHANGED << corevars, entry, appvars, people >>

NextPanels ==
    \/ notify_change
    \/ render_inputs
    \/ render_imported
    \/ render_loaded
    \/ set_theme

\* The application or the panels, driven by the user's events.
InitRender ==
    /\ call = NoCall
    /\ ret = Pending
    /\ entry \in { "app", "ui" }
    /\ steps = 0
    /\ AppConstructed
    /\ PanelsConstructed

NextRender == NextApp \/ NextPanels

SpecRender == InitRender /\ [][NextRender]_vars

\* LoveLanguageApp on its own.  The event loop runs every callback that
\* stays pending: Tk calls an idle or timer callback once no event is left.
InitApp ==
    /\ InitRender
    /\ entry = "app"

SpecApp == InitApp /\ [][NextApp]_vars

\* The names and the live preview on their own: the name entries, the
\* switch, Generate and the callbacks of the event loop.
NextPreview ==
    \/ refresh_live_preview
    \/ on_name_change
    \/ handle_focus_out
    \/ on_active_person_changed
    \/ on_generate

SpecPreviewLive ==
    InitApp /\ [][NextPreview]_vars /\ WF_vars(refresh_live_preview)

\* The radar charts on their own: the events of the canvas and of the
\* active-person switch, with the callbacks the event loop runs.
NextCanvas ==
    \/ refresh_live_preview
    \/ on_active_person_changed
    \/ on_canvas_press
    \/ on_canvas_motion
    \/ on_canvas_release

SpecCanvas == InitApp /\ [][NextCanvas]_vars
\* ProfileInputPanel.set_profiles on its own.  A supplied vector has 4 to 6
\* entries, 7.0 everywhere but at one place, where the entry is below 0,
\* inside the range, above 10, nan, infinite or None.
SuppliedValues ==
    { Number(-20000), Number(30000), Number(120000),
      NotFinite("nan"), NotFinite("inf"), Missing }
SuppliedVectors ==
    { [i \in 1..n |-> IF i = k THEN item ELSE Number(70000)] :
          n \in (Len(CATEGORIES) - 1)..(Len(CATEGORIES) + 1),
          k \in { 1, 3 }, item \in SuppliedValues }
PlainVector(value) == [i \in 1..Len(CATEGORIES) |-> Number(value)]
SuppliedProfiles ==
    [person_a :
        { Absent } \cup
        { Present(PersonProfile(name, giving, PlainVector(50000))) :
              name \in { "Ann", " " }, giving \in SuppliedVectors } \cup
        { Present(PersonProfile("Ann", PlainVector(0), receiving)) :
              receiving \in SuppliedVectors },
     person_b :
        { Absent,
          Present(PersonProfile("Bob", PlainVector(20000),
                                PlainVector(120000))) }]

InitSetProfiles ==
    /\ ret = Pending
    /\ entry = "ui"
    /\ steps = 0
    /\ AppConstructed
    /\ PanelsConstructed
    /\ \E supplied \in SuppliedProfiles :
           call = [op |-> "set_profiles", profiles |-> supplied]

\* The owner of the panel calls set_profiles; ret holds how the call ended,
\* the flag and the calls of on_profiles_changed it has made.
CallSetProfiles ==
    /\ ret = Pending
    /\ call.op = "set_profiles"
    /\ LET done == set_profiles(people, call.profiles)
       IN  /\ people' = done.people
           /\ ret' = [kind |-> IF done.raised THEN "raise" ELSE "return",
                      exc |-> "TypeError",
                      suspend_callbacks |-> done.suspend_callbacks,
                      notified |-> done.notified]
    /\ UNCHANGED << call, entry, steps, appvars, panel >>

SpecSetProfiles == InitSetProfiles /\ [][CallSetProfiles]_vars
\* The arrays behind the profiles.  A heap is the sequence of the arrays
\* allocated so far and an address is a place in it; the four arrays of
\* self._profiles are allocated first.
LiveAddress(key, mode) ==
    (IF key = "person_a" THEN 0 ELSE 2) + (IF mode = "giving" THEN 1 ELSE 2)
LiveArrays(values) ==
    << values.person_a.giving, values.person_a.receiving,
       values.person_b.giving, values.person_b.receiving >>

\* ndarray.astype(float, copy=False): a float array is returned itself
astype_NoCopy(heap, address) == [heap |-> heap, address |-> address]

\* ndarray.astype(float, copy=True): a new array with the same values
astype(heap, address) ==
    [heap |-> Append(heap, heap[address]), address |-> Len(heap) + 1]

\* _gather_profile, by address: the arrays of the PersonProfile it returns
gather_profile_arrays(heap, key) ==
    LET giving == astype(heap, LiveAddress(key, "giving"))
        receiving == astype(giving.heap, LiveAddress(key, "receiving"))
    IN  [heap |-> receiving.heap,
         giving |-> giving.address, receiving |-> receiving.address]

\* _set_profile_value, by address: values[index] = clamped on the array of
\* self._profiles
write_profile_value(heap, person_key, mode, index, value) ==
    [heap EXCEPT ![LiveAddress(person_key, mode)][index + 1] =
                     Clip(value, 0, 100000)]

\* What a call of the analysis core on the arrays of a profile does to the
\* heap: correlation reads its arguments through np.asarray(...).ravel(),
\* build_explanation builds its sums and differences in new arrays, and
\* np.concatenate in close_loop returns a new array.
core_call(heap, op, profile) ==
    LET giving == heap[profile.giving]
        receiving == heap[profile.receiving]
        person == PersonProfile("Ann", giving, receiving)
    IN  IF op = "correlation"
        THEN [heap |-> heap, result |-> correlation(giving, receiving)]
        ELSE IF op = "close_loop"
        THEN [heap |-> Append(heap, close_loop(giving).value),
              result |-> close_loop(giving)]
        ELSE [heap |-> heap,
              result |-> build_explanation(person, person, NaN, NaN)]

\* _gather_profile(key), then a _set_profile_value on the live arrays, then
\* one call of the analysis core on the gathered profile.
SnapshotValues == { -20000, 30000, 120000 }
CoreOps == { "correlation", "close_loop", "build_explanation" }

InitSnapshot ==
    /\ ret = Pending
    /\ entry = "app"
    /\ steps = 0
    /\ AppConstructed
    /\ PanelsConstructed
    /\ \E key \in Persons, person_key \in Persons, mode \in Modes,
          index \in 0..(Len(CATEGORIES) - 1), value \in SnapshotValues,
          op \in CoreOps :
           call = [op |-> "snapshot", key |-> key, person_key |-> person_key,
                   mode |-> mode, index |-> index, value |-> value,
                   core |-> op]

\* ret holds the vectors of the gathered profile as they were returned and
\* as they are in the end, and the live arrays in the end.
CallSnapshot ==
    /\ ret = Pending
    /\ call.op = "snapshot"
    /\ LET gathered == gather_profile_arrays(LiveArrays(scores), call.key)
           written == write_profile_value(gathered.heap, call.person_key,
                                          call.mode, call.index, call.value)
           analysed == core_call(written, call.core, gathered)
       IN  /\ ret' = [kind |-> "return",
                      before |-> << gathered.heap[gathered.giving],
                                    gathered.heap[gathered.receiving] >>,
                      after |-> << analysed.heap[gathered.giving],
                                   analysed.heap[gathered.receiving] >>,
                      result |-> analysed.result]
           /\ scores' =
                  [key \in Persons |->
                      [mode \in Modes |->
                          analysed.heap[LiveAddress(key, mode)]]]
    /\ UNCHANGED << call, entry, steps, name_var, active_person_var,
                    switch_button_text, drag_state, live_update_job, timers,
                    after_seq, insights_current, text_var, canvas,
                    plot_artists, scale_markers, report_inputs, uivars >>

SpecSnapshot == InitSnapshot /\ [][CallSnapshot]_vars
\* The two import paths and the export on their own.
RoundTripNames == NameInputs \cup { " Ann " }
FractionalScores == << 0, 100000, 72500, 1, 99999 >>
RoundTripVectors ==
    ScoreVectors \cup { DefaultScores, ScenarioGiving, FractionalScores }

\* arrays of the right length with one entry at the edge of the range or
\* off the grid, next to the arrays of PayloadArrays
ImportValues == { 0, 50000, 100000, FloatNaN, Infinity, -Infinity }
ImportArrays ==
    PayloadArrays \cup
    { Array([i \in 1..Len(CATEGORIES) |-> IF i = k THEN v ELSE 50000]) :
          k \in 1..Len(CATEGORIES), v \in ImportValues }

Reversed(seq) == [i \in 1..Len(seq) |-> seq[Len(seq) + 1 - i]]
CategoryLists ==
    { Absent, Present(CATEGORIES), Present(Reversed(CATEGORIES)),
      Present(SubSeq(CATEGORIES, 1, Len(CATEGORIES) - 1)) }

InitRoundTrip ==
    \E name \in RoundTripNames, g \in RoundTripVectors,
       r \in { DefaultScores, FractionalScores },
       via \in { "payload", "file" } :
        call = [op |-> "roundtrip", via |-> via,
                profile |-> PersonProfile(name, g, r)]

InitPayloadToProfile ==
    \E categories \in CategoryLists, g \in ImportArrays, r \in ImportArrays :
        call = [op |-> "payload_to_profile",
                payload |-> [schema |-> Present(PROFILE_SCHEMA),
                             version |-> Present(PROFILE_VERSION),
                             categories |-> categories,
                             name |-> Present("Ann"),
                             giving |-> Present(g),
                             receiving |-> Present(r)]]

InitPayloadToProfiles ==
    \E g \in ImportArrays, r \in ImportArrays :
        call = [op |-> "payload_to_profiles",
                payload |-> [person_a |-> IoPerson("Ann", g,
                                                   Array(DefaultScores)),
                             person_b |-> IoPerson("Bob",
                                                   Array(DefaultScores), r)]]

InitImport ==
    /\ InitAnalysis
    /\ InitRoundTrip \/ InitPayloadToProfile \/ InitPayloadToProfiles

\* profile_to_payload followed by payload_to_profile, directly or through
\* dump_profile_to_file and load_profile_from_file
CallRoundTrip ==
    /\ ret = Pending
    /\ call.op = "roundtrip"
    /\ ret' = IF call.via = "payload"
              THEN payload_to_profile(profile_to_payload(call.profile))
              ELSE load_profile_from_file(dump_profile_to_file(call.profile))
    /\ UNCHANGED << call, entry, steps, appvars, uivars >>

CallPayloadToProfile ==
    /\ ret = Pending
    /\ call.op = "payload_to_profile"
    /\ ret' = payload_to_profile(call.payload)
    /\ UNCHANGED << call, entry, steps, appvars, uivars >>

CallPayloadToProfiles ==
    /\ ret = Pending
    /\ call.op = "payload_to_profiles"
    /\ ret' = payload_to_profiles(call.payload)
    /\ UNCHANGED << call, entry, steps, appvars, uivars >>

NextImport == CallRoundTrip \/ CallPayloadToProfile \/ CallPayloadToProfiles

SpecImport == InitImport /\ [][NextImport]_vars

\* ================================================================ claims
Returned == ret.kind = "return"
Raised(exc) == ret.kind = "raise" /\ ret.exc = exc
ReturnedNaN == Returned /\ ~ret.value.def
CorrelationDone == call.op = "correlation" /\ ret # Pending
CloseLoopDone == call.op = "close_loop" /\ ret # Pending
PolarAnglesDone == call.op = "polar_angles" /\ ret # Pending

\* The sample variance (divisor n-1) of x exceeds the tolerance 1e-8:
\* (n*sum(x^2) - sum(x)^2) / (n*(n-1)) > Atol.
VarianceAboveTolerance(x) ==
    LET n == Len(x)
        sq == SumSeq([i \in 1..n |-> x[i] * x[i]])
    IN  n >= 2 /\ n * sq - SumSeq(x) * SumSeq(x) > Atol * n * (n - 1)

C2_ConstantOrShortIsUndefined ==
    ( /\ CorrelationDone
      /\ Len(call.first) = Len(call.second)
      /\ \/ Len(call.first) < 2
         \/ IsConstant(call.first)
         \/ IsConstant(call.second) )
        => ReturnedNaN

C2_Witness ==
    /\ CorrelationDone
    /\ Len(call.first) = 3
    /\ Len(call.second) = 3
    /\ ~IsConstant(call.first)
    /\ VarianceAboveTolerance(call.first)
    /\ IsConstant(call.second)
    /\ ReturnedNaN

\* C3 as stated: for every non-constant x with at least 2 elements,
\* correlation(x, a*x + b) is 1.0 for a > 0 and -1.0 for a < 0.
C3_Original ==
    \A a \in Slopes, b \in Offsets :
        ( /\ CorrelationDone
          /\ Len(call.first) >= 2
          /\ ~IsConstant(call.first)
          /\ call.second = Affine(call.first, a, b) )
            => /\ Returned
               /\ ret.value = IF a > 0 THEN One ELSE MinusOne

\* C3 as amended: when the sample variances of x and of a*x + b both exceed
\* the tolerance 1e-8, correlation(x, a*x + b) is 1.0 for a > 0 and -1.0
\* for a < 0.
C3_AffineImageIsPerfect ==
    \A a \in Slopes, b \in Offsets :
        ( /\ CorrelationDone
          /\ VarianceAboveTolerance(call.first)
          /\ VarianceAboveTolerance(call.second)
          /\ call.second = Affine(call.first, a, b) )
            => /\ Returned
               /\ ret.value = IF a > 0 THEN One ELSE MinusOne

C3_Witness ==
    /\ CorrelationDone
    /\ call.first = << 0, 2, 2 >>
    /\ call.second = Affine(call.first, -2, 1)
    /\ Returned
    /\ ret.value = MinusOne

\* C4: for equal-length non-constant x and y, correlation(x, y) and
\* correlation(y, x) are both undefined or are the same number.
C4_Symmetric ==
    ( /\ CorrelationDone
      /\ Len(call.first) = Len(call.second)
      /\ ~IsConstant(call.first)
      /\ ~IsConstant(call.second) )
        => ret = correlation(call.second, call.first)

C4_Witness ==
    /\ CorrelationDone
    /\ call.first = << 0, 2, 2 >>
    /\ call.second = << 2, 0, 2 >>
    /\ Returned
    /\ ret.value.def
    /\ ret.value.sgn = -1
    /\ ret.value.num < ret.value.den

\* C5: for a non-empty sequence of N values, close_loop returns N+1 values:
\* the input in order, then the input's first element.
C5_CloseLoopAppendsFirst ==
    (CloseLoopDone /\ Len(call.values) >= 1)
        => /\ Returned
           /\ Len(ret.value) = Len(call.values) + 1
           /\ \A i \in 1..Len(call.values) : ret.value[i] = call.values[i]
           /\ ret.value[Len(call.values) + 1] = call.values[1]

C5_Witness ==
    /\ CloseLoopDone
    /\ call.values = << 1, 2, 0 >>
    /\ Returned
    /\ ret.value = << 1, 2, 0, 1 >>

\* C6 as stated: close_loop of an empty sequence fails with the ValueError
\* that correlation raises for invalid input.
C6_Original ==
    (CloseLoopDone /\ Len(call.values) = 0) => Raised("ValueError")

\* C7: for count >= 1, polar_angles(count) returns count+1 angles; the
\* first count are k * (2*pi/count), k = 0..count-1, ascending from 0 and
\* below a full turn, and the last equals the first.
C7_PolarAnglesEvenlySpaced ==
    (PolarAnglesDone /\ call.category_count.given /\ call.category_count.n >= 1)
        => LET count == call.category_count.n
           IN  /\ Returned
               /\ Len(ret.value) = count + 1
               /\ \A k \in 0..(count - 1) :
                    /\ ret.value[k + 1].num = k
                    /\ ret.value[k + 1].den = count
                    /\ ret.value[k + 1].num < ret.value[k + 1].den
               /\ ret.value[count + 1] = ret.value[1]
               /\ ret.value[count + 1].num = 0

C7_Witness ==
    /\ PolarAnglesDone
    /\ call.category_count = Some(4)
    /\ Returned
    /\ ret.value = << Angle(0, 4), Angle(1, 4), Angle(2, 4), Angle(3, 4),
                      Angle(0, 4) >>

\* C8 as stated: polar_angles(count) fails with an invalid-input error for
\* every count < 1, count = 0 included, and returns no angles.
C8_Original ==
    (PolarAnglesDone /\ call.category_count.given /\ call.category_count.n < 1)
        => Raised("ValueError")

\* The polygons the two renderers have asked their axes to draw: the
\* angles and the two value loops of every chart drawn so far.
RenderedPolygons ==
    { << plot_artists[key].angles, plot_artists[key].giving_values >> :
          key \in { k \in AxisKeys : plot_artists[k].exists } }
    \cup
    { << plot_artists[key].angles, plot_artists[key].receiving_values >> :
          key \in { k \in AxisKeys : plot_artists[k].exists } }
    \cup
    { << panel.series[key].angles, panel.series[key].giving_values >> :
          key \in { k \in AxisKeys : panel.series[k].plotted } }
    \cup
    { << panel.series[key].angles, panel.series[key].receiving_values >> :
          key \in { k \in AxisKeys : panel.series[k].plotted } }

\* C9: whenever LoveLanguageApp._render_plot or RadarPlotPanel.render has
\* drawn a polygon, its angle sequence and its value sequence have the same
\* length, the category count plus one, for every profile the application
\* and the panels' profile sources hand to the renderers.
C9_PolygonLengthsMatch ==
    \A polygon \in RenderedPolygons :
        /\ Len(polygon[1]) = Len(polygon[2])
        /\ Len(polygon[1]) = Len(CATEGORIES) + 1

C9_Witness ==
    /\ entry = "app"
    /\ drag_state.active
    /\ scores.person_a.giving = << 50000, 100000, 50000, 50000, 50000 >>
    /\ plot_artists.a_to_b.exists
    /\ plot_artists.a_to_b.giving_values =
           << 50000, 100000, 50000, 50000, 50000, 50000 >>
    /\ Len(plot_artists.a_to_b.angles) = 6

\* text.split("\n\n"): the blocks of a text, cut at each blank-line
\* separator from left to right.
RECURSIVE Split(_)
Split(text) ==
    LET cuts == { i \in 1..(Len(text) - 1) : text[i] = NL /\ text[i + 1] = NL }
    IN  IF cuts = {} THEN << text >>
        ELSE LET i == CHOOSE c \in cuts : \A d \in cuts : c <= d
             IN  << SubSeq(text, 1, i - 1) >>
                 \o Split(SubSeq(text, i + 2, Len(text)))

Contains(block, token) == \E i \in 1..Len(block) : block[i] = token

\* A directional sentence from giver to receiver about the coefficient
\* value, carrying the given description.
IsDirectional(block, giver, receiver, value, description) ==
    /\ Len(block) >= 4
    /\ block[1] = giver
    /\ block[3] = receiver
    /\ Contains(block, description)
    /\ Contains(block, ": r is undefined. ") <=> ~value.def
    /\ Contains(block, ": r = ") <=> value.def

ExplanationDone == call.op = "build_explanation" /\ ret # Pending

\* C10: build_explanation returns exactly 5 blocks separated by blank
\* lines: A gives -> B receives, B gives -> A receives, greatest shared
\* enthusiasm, most aligned expectations, largest gap; for finite and for
\* undefined coefficients alike.
C10_FiveBlocksInOrder ==
    ExplanationDone =>
        /\ Returned
        /\ \A blocks \in { Split(ret.value) } :
               /\ Len(blocks) = 5
               /\ IsDirectional(blocks[1], call.person_a.name,
                                call.person_b.name, call.corr_a_to_b,
                                Description1)
               /\ IsDirectional(blocks[2], call.person_b.name,
                                call.person_a.name, call.corr_b_to_a,
                                Description2)
               /\ Contains(blocks[3], "Greatest shared enthusiasm: ")
               /\ blocks[4][1] = "Most aligned expectations: "
               /\ blocks[5][1] = "Largest gap: "

C10_Witness ==
    /\ ExplanationDone
    /\ call.person_a.name = "Ann"
    /\ call.person_b.name = "Bob"
    /\ ~call.corr_a_to_b.def
    /\ call.corr_b_to_a = Coef(-1, 9, 16)
    /\ Returned
    /\ Len(Split(ret.value)) = 5

InterpretDone == call.op = "interpret_correlation" /\ ret # Pending
SubtitleDone == call.op = "format_subtitle" /\ ret # Pending

StrengthLabels ==
    { "minimal or mixed", "weak", "moderate", "strong", "near perfect" }

\* The bucket of |r| for r = num / den, by the intervals [0, 0.20),
\* [0.20, 0.40), [0.40, 0.70), [0.70, 0.90) and [0.90, 1].
BucketOf(r) ==
    LET a == 100 * Abs(r.num)
    IN  IF a < 20 * r.den THEN "minimal or mixed"
        ELSE IF a < 40 * r.den THEN "weak"
        ELSE IF a < 70 * r.den THEN "moderate"
        ELSE IF a < 90 * r.den THEN "strong"
        ELSE "near perfect"

\* C11: for every finite coefficient r the sentence of
\* interpret_correlation carries exactly one strength label, the one of the
\* bucket of |r|, a boundary value belonging to the higher bucket.
C11_OneStrengthLabel ==
    (InterpretDone /\ call.r.present) =>
        /\ Returned
        /\ { label \in StrengthLabels : Contains(ret.value, label) }
               = { BucketOf(call.r.value) }

C11_Witness ==
    /\ InterpretDone
    /\ call.r = Present([num |-> -90, den |-> 100])
    /\ Returned
    /\ Contains(ret.value, "near perfect")
    /\ ~Contains(ret.value, "strong")

\* C12: for every finite coefficient r the sentence carries the direction
\* label "alignment" when r >= 0, r = 0 included, and "inverse alignment"
\* when r < 0, whatever the strength bucket.
C12_DirectionLabel ==
    (InterpretDone /\ call.r.present) =>
        /\ Returned
        /\ Contains(ret.value, "alignment") <=> call.r.value.num >= 0
        /\ Contains(ret.value, "inverse alignment") <=> call.r.value.num < 0

C12_Witness ==
    /\ InterpretDone
    /\ call.r = Present([num |-> 0, den |-> 100])
    /\ Returned
    /\ Contains(ret.value, "alignment")
    /\ Contains(ret.value, "minimal or mixed")

\* C13: for an undefined coefficient both the narrative sentence and the
\* chart subtitle return their undefined variant, without failing, and
\* neither writes the value as a number.
C13_UndefinedIsWorded ==
    ((InterpretDone \/ SubtitleDone) /\ ~call.value.def) =>
        /\ Returned
        /\ ~Contains(ret.value, "nan")
        /\ ~Contains(ret.value, ": r = ")
        /\ ~Contains(ret.value, "Giving matches receiving (r = ")
        /\ InterpretDone =>
               /\ Contains(ret.value, ": r is undefined. ")
               /\ Contains(ret.value, "Insufficient variation to assess ")
        /\ SubtitleDone =>
               ret.value = << "Giving matches receiving (r undefined)" >>

C13_Witness ==
    /\ SubtitleDone
    /\ ~call.value.def
    /\ Returned
    /\ ret.value = << "Giving matches receiving (r undefined)" >>

\* The token that follows a heading in a block of the narrative.
NamedAfter(block, heading) ==
    block[(CHOOSE i \in 1..Len(block) : block[i] = heading) + 1]

\* i is the lowest position at which v is largest / smallest.
FirstLargest(v, i) ==
    /\ \A j \in 1..Len(v) : v[j] <= v[i]
    /\ \A j \in 1..(i - 1) : v[j] < v[i]

FirstSmallest(v, i) ==
    /\ \A j \in 1..Len(v) : v[j] >= v[i]
    /\ \A j \in 1..(i - 1) : v[j] > v[i]

GivenReceivedSum ==
    [i \in 1..5 |-> call.person_a.giving[i] + call.person_b.receiving[i]]

GivenReceivedGap ==
    [i \in 1..5 |->
        IF call.person_a.giving[i] >= call.person_b.receiving[i]
        THEN call.person_a.giving[i] - call.person_b.receiving[i]
        ELSE call.person_b.receiving[i] - call.person_a.giving[i]]

\* C14: the category named in the "Greatest shared enthusiasm" block is
\* the one at the lowest index i that maximises
\* (A.giving[i] + B.receiving[i]) / 2.
C14_GreatestSharedEnthusiasm ==
    ExplanationDone =>
        /\ Returned
        /\ \E i \in 1..5 :
               /\ NamedAfter(Split(ret.value)[3],
                             "Greatest shared enthusiasm: ") = CATEGORIES[i]
               /\ FirstLargest(GivenReceivedSum, i)

C14_Witness ==
    /\ ExplanationDone
    /\ call.person_a.giving = << 0, 1, 0, 1, 0 >>
    /\ call.person_b.receiving = << 0, 1, 0, 1, 0 >>
    /\ Returned
    /\ Contains(Split(ret.value)[3], CATEGORIES[2])

\* C15: the category named in the "Most aligned expectations" block is the
\* one at the lowest index i that minimises |A.giving[i] - B.receiving[i]|.
C15_MostAlignedExpectations ==
    ExplanationDone =>
        /\ Returned
        /\ \E i \in 1..5 :
               /\ NamedAfter(Split(ret.value)[4],
                             "Most aligned expectations: ") = CATEGORIES[i]
               /\ FirstSmallest(GivenReceivedGap, i)

C15_Witness ==
    /\ ExplanationDone
    /\ call.person_a.giving = << 1, 0, 1, 1, 0 >>
    /\ call.person_b.receiving = << 0, 0, 0, 1, 0 >>
    /\ Returned
    /\ Contains(Split(ret.value)[4], CATEGORIES[2])

\* C16: the category named in the "Largest gap" block is the one at the
\* lowest index i that maximises |A.giving[i] - B.receiving[i]|; of two
\* categories with the same largest absolute difference the earlier one in
\* category order is named.
C16_LargestGap ==
    ExplanationDone =>
        /\ Returned
        /\ \E i \in 1..5 :
               /\ NamedAfter(Split(ret.value)[5], "Largest gap: ")
                      = CATEGORIES[i]
               /\ FirstLargest(GivenReceivedGap, i)

C16_Witness ==
    /\ ExplanationDone
    /\ call.person_a.giving = << 0, 1, 0, 0, 1 >>
    /\ call.person_b.receiving = << 0, 0, 0, 1, 1 >>
    /\ Returned
    /\ Contains(Split(ret.value)[5], CATEGORIES[2])

ScenarioDone ==
    /\ ExplanationDone
    /\ call.person_a.giving = ScenarioGiving
    /\ call.person_b.receiving = ScenarioReceiving

\* C17 as stated: with A.giving = [8,2,5,9,1] and B.receiving = [7,3,4,8,2]
\* the "Largest gap" block names the category at index 4, the last one.
C17_Original ==
    ScenarioDone =>
        /\ Returned
        /\ NamedAfter(Split(ret.value)[5], "Largest gap: ") = CATEGORIES[5]

\* C17: with A.giving = [8,2,5,9,1] and B.receiving = [7,3,4,8,2] every
\* absolute difference is 1, and the "Largest gap" block names the category
\* at index 0, the first one.
C17_ScenarioNamesFirstCategory ==
    ScenarioDone =>
        /\ Returned
        /\ \A i \in 1..5 : GivenReceivedGap[i] = 10000
        /\ NamedAfter(Split(ret.value)[5], "Largest gap: ") = CATEGORIES[1]

C17_Witness ==
    /\ ScenarioDone
    /\ Returned
    /\ Contains(Split(ret.value)[5], "Words of Affirmation")

RoundTripDone == call.op = "roundtrip" /\ ret # Pending
PayloadToProfileDone == call.op = "payload_to_profile" /\ ret # Pending
PayloadToProfilesDone == call.op = "payload_to_profiles" /\ ret # Pending

\* The profile of a round trip has a name that is not blank; its values
\* lie in [0, 10] by the choice of RoundTripVectors.
RoundTripCovered ==
    /\ RoundTripDone
    /\ call.profile.name \notin { "", " " }
    /\ \A i \in 1..5 :
           /\ call.profile.giving[i] >= 0 /\ call.profile.giving[i] <= 100000
           /\ call.profile.receiving[i] >= 0
           /\ call.profile.receiving[i] <= 100000

\* C18 as stated: for every profile with a non-blank name and 5 giving and
\* 5 receiving values in [0, 10], payload_to_profile(profile_to_payload(p)),
\* also through the JSON file, yields a profile with the same name, giving
\* and receiving as p.
C18_Original ==
    RoundTripCovered =>
        /\ Returned
        /\ ret.value.name = call.profile.name
        /\ ret.value.giving = call.profile.giving
        /\ ret.value.receiving = call.profile.receiving

\* C18: for every such profile the round trip, also through the JSON file,
\* yields a profile with the same giving and receiving as p and with the
\* name of p without its leading and trailing whitespace: the same name
\* when it has none.
C18_RoundTripStripsName ==
    RoundTripCovered =>
        /\ Returned
        /\ ret.value.name =
               (IF call.profile.name = " Ann " THEN "Ann"
                ELSE call.profile.name)
        /\ ret.value.giving = call.profile.giving
        /\ ret.value.receiving = call.profile.receiving

C18_Witness ==
    /\ RoundTripCovered
    /\ call.via = "file"
    /\ call.profile.name = " Ann "
    /\ call.profile.giving = ScenarioGiving
    /\ call.profile.receiving = FractionalScores
    /\ Returned
    /\ ret.value.name = "Ann"
    /\ ret.value.receiving = << 0, 100000, 72500, 1, 99999 >>

\* Some entry of the array under the key is a number outside [0, 10].
OutsideRange(payload, key) ==
    /\ payload[key].present
    /\ payload[key].value.is_sequence
    /\ \E i \in 1..Len(payload[key].value.items) :
           LET x == payload[key].value.items[i]
           IN  x # FloatNaN /\ (x < 0 \/ x > 100000)

\* C19: payload_to_profile raises ValueError and returns no profile
\* whenever the categories list of the payload is present and differs from
\* the ordered category list of the application, the same labels in
\* another order included, or whenever a giving or receiving value lies
\* outside [0, 10].
C19_RejectsForeignPayload ==
    (/\ PayloadToProfileDone
     /\ \/ /\ call.payload.categories.present
           /\ call.payload.categories.value # CATEGORIES
        \/ OutsideRange(call.payload, "giving")
        \/ OutsideRange(call.payload, "receiving"))
        => Raised("ValueError")

C19_Witness ==
    /\ PayloadToProfileDone
    /\ call.payload.categories
           = Present(<< "Physical Touch", "Quality Time", "Receiving Gifts",
                        "Acts of Service", "Words of Affirmation" >>)
    /\ call.payload.giving = Present(Array(DefaultScores))
    /\ call.payload.receiving = Present(Array(DefaultScores))
    /\ Raised("ValueError")

\* A vector of one real number in [0, 10] per category.
ValidVector(v) ==
    /\ Len(v) = Len(CATEGORIES)
    /\ \A i \in 1..Len(v) :
           /\ v[i] \notin { FloatNaN, Infinity, -Infinity }
           /\ v[i] >= 0
           /\ v[i] <= 100000

ValidProfile(profile) ==
    ValidVector(profile.giving) /\ ValidVector(profile.receiving)

\* C20 as stated: every PersonProfile returned by either import path has
\* giving and receiving vectors of one real number in [0, 10] per category,
\* for every payload, those with out-of-range or not-a-number entries
\* included; a payload that cannot satisfy this is rejected with an error.
C20_Original ==
    /\ (PayloadToProfileDone /\ Returned) => ValidProfile(ret.value)
    /\ (PayloadToProfilesDone /\ Returned) =>
           /\ ValidProfile(ret.value.person_a)
           /\ ValidProfile(ret.value.person_b)

\* ---------------------------------------------------------------------
\* The window: claims about LoveLanguageApp, checked under SpecApp.
\* ---------------------------------------------------------------------

\* C21 (as stated): every consumer of the coefficients branches on the
\* undefined value, so no drawn scale marker is positioned at a
\* not-a-number coordinate.  _draw_scale_marker tests only `value is None`
\* and hands nan to np.clip, so a report on constant vectors (the untouched
\* defaults) draws both markers at nan.
C21_Original ==
    \A key \in AxisKeys :
        scale_markers[key].artist.drawn => scale_markers[key].artist.x.def

\* Every stored vector has one value per category, each within [0, 10].
ValuesInRange ==
    \A person \in Persons, mode \in Modes :
        /\ Len(scores[person][mode]) = Len(CATEGORIES)
        /\ \A i \in 1..Len(CATEGORIES) :
               /\ scores[person][mode][i] >= 0
               /\ scores[person][mode][i] <= 100000

\* The press events and the radial coordinates without a finite number.
NonFinitePresses == { event \in PressEvents : event.ydata.kind # "num" }
NonFiniteYData == { ydata \in YData : ydata.kind # "num" }

\* A press or a motion whose radial coordinate is missing or not finite
\* leaves every stored value as it was: a step that changes a value is the
\* step of no such event.
NonFiniteLeavesValues ==
    scores' # scores =>
        /\ \A event \in NonFinitePresses :
               ~canvas_press(event.button, event.inaxes, event.xdata,
                             event.ydata)
        /\ \A inaxes \in EventAxes, ydata \in NonFiniteYData :
               ~canvas_motion(inaxes, ydata)

\* C22: after any sequence of canvas presses, motions, releases and
\* active-person toggles with arbitrary radial coordinates, every stored
\* giving and receiving value of both people lies in [0, 10] and each vector
\* keeps its five entries; an event whose coordinate is missing or not
\* finite leaves all values unchanged.
C22_ValuesStayInRange == []ValuesInRange /\ [][NonFiniteLeavesValues]_vars

\* A press above the outer ring stored 10, a press below the centre stored 0.
C22_Witness ==
    /\ scores.person_a.giving[1] = 100000
    /\ scores.person_a.giving[2] = 0

\* C24 (as stated): at most one call of _refresh_live_preview is pending in
\* the event loop, the one queued at start-up included, and
\* _live_update_job is None exactly when no job queued by
\* _schedule_live_update is pending.  The start-up job (timer 1) is queued
\* with after_idle and never recorded in _live_update_job: a name written
\* before it has run queues a second call, and when it runs it clears
\* _live_update_job although the scheduled job is still pending.
C24_Original ==
    /\ Cardinality(timers) <= 1
    /\ (live_update_job = None) <=> (timers \ {1} = {})

\* C25 (as stated): once Generate has displayed a report, the report is
\* replaced by the stale notice only if a name or a value differs from the
\* ones the report was generated from; a live-update job queued before the
\* Generate click and run after it does not discard the report.
\* _refresh_live_preview calls _mark_insights_stale whatever has changed.
C25_Original ==
    [][(/\ report_inputs.present
        /\ text_var # StaleText
        /\ text_var' = StaleText)
          => \/ name_var' # report_inputs.value.names
             \/ scores' # report_inputs.value.scores]_vars

\* The report build_explanation gives for the names and values of now.
CurrentReport ==
    LET person_a == gather_profile(name_var, scores, "person_a", FALSE).value
        person_b == gather_profile(name_var, scores, "person_b", FALSE).value
    IN  build_explanation(
            person_a, person_b,
            correlation(person_a.giving, person_b.receiving).value,
            correlation(person_b.giving, person_a.receiving).value).value

\* C26 (as stated): whenever _insights_current is True the displayed text is
\* build_explanation of the current names and the current values of both
\* people.  _on_name_change only schedules the refresh, so until that timer
\* runs the flag stays True over a report written for the former name.
C26_Original == insights_current => text_var = CurrentReport

\* ---------------------------------------------------------------------
\* The drag protocol, checked under SpecCanvas.
\* ---------------------------------------------------------------------

\* An event angle (in steps of 4.5 degrees) within 22.5 degrees of one of
\* the five category axes, which lie 72 degrees apart.
NearCategoryAxis(theta) ==
    \E k \in 0..Len(CATEGORIES) :
        /\ theta - 16 * k <= 5
        /\ 16 * k - theta <= 5

\* The step is a left-button press inside a chart near a category axis.
LeftPressNearAxis ==
    \E event \in PressEvents :
        /\ event.button = 1
        /\ event.inaxes \in AxisKeys
        /\ event.xdata # Missing
        /\ NearCategoryAxis(event.xdata.n)
        /\ canvas_press(event.button, event.inaxes, event.xdata, event.ydata)

MotionStep ==
    \E inaxes \in EventAxes, ydata \in YData : canvas_motion(inaxes, ydata)

\* Every entry but the one of the drag keeps its value.
OnlyDraggedEntryWritten ==
    \A person \in Persons, mode \in Modes, i \in 1..Len(CATEGORIES) :
        scores'[person][mode][i] # scores[person][mode][i]
            => /\ person = drag_state.person
               /\ mode = drag_state.mode
               /\ i = drag_state.index + 1

DragProtocol ==
    /\ (scores' # scores /\ MotionStep)
           => /\ drag_state.active
              /\ drag_state' = drag_state
              /\ OnlyDraggedEntryWritten
    /\ (~drag_state.active /\ drag_state'.active) => LeftPressNearAxis
    /\ (drag_state.active /\ drag_state'.active /\ drag_state' # drag_state)
           => LeftPressNearAxis
    /\ canvas_release(1) => ~drag_state'.active

\* C27: a motion event changes a value only while a drag is active, that is
\* after a left-button press inside a chart within 22.5 degrees of a
\* category axis and before the next left-button release; it writes only
\* the (person, mode, index) entry fixed by that press and leaves every
\* other value of both people unchanged; after a left-button release no
\* drag is active.
C27_DragProtocol == [][DragProtocol]_vars

\* A drag on the second category of person A's giving has ended by a
\* release with the value 3 in place.
C27_Witness ==
    /\ ~drag_state.active
    /\ scores.person_a.giving[2] = 30000

\* A drawn handle is visible exactly when it shows a value of the person
\* the switch selects.
HandlesOfActivePerson ==
    \A person \in Persons, mode \in Modes :
        LET lookup == handle_lookup[person][mode]
            artists == plot_artists[lookup.axis_key]
            visible == IF lookup.handle_key = "giving_handle"
                       THEN artists.giving_handle_visible
                       ELSE artists.receiving_handle_visible
        IN  artists.exists => (visible <=> person = active_person_var)

\* C28 (as stated): no press or motion event changes a value of the person
\* the active-person switch does not select, also when the switch is
\* flipped while a drag is in progress, and after every render or toggle a
\* handle is visible exactly when its owner is the active person.
\* _on_canvas_motion writes to the person stored in _drag_state at press
\* time and never reads _active_person_var, and _on_active_person_changed
\* leaves _drag_state alone.
C28_Original ==
    /\ []HandlesOfActivePerson
    /\ [][\A person \in Persons \ {active_person_var} :
              scores'[person] = scores[person]]_vars

\* ---------------------------------------------------------------------
\* The live preview, checked under SpecPreviewLive: the event loop runs
\* every callback that stays pending.
\* ---------------------------------------------------------------------

\* No callback is pending, and the charts show the names and values of now.
PreviewSettled ==
    /\ timers = {}
    /\ live_update_job = None
    /\ canvas
    /\ plot_artists = update_visuals_from_profiles(scores).value.plot_artists

\* A step that takes a job out of the event loop and queues none is the
\* callback running, never a cancellation.
NoBareCancel ==
    (timers \ timers' # {} /\ timers' \ timers = {}) => refresh_live_preview

\* C30: once the name changes have stopped, and given that the event loop
\* runs the timers that stay pending, _refresh_live_preview runs and
\* renders the charts from the final names and values, and from then on no
\* live-update job is pending; a pending job is never cancelled without a
\* replacement being queued.
C30_PreviewSettles == <>[]PreviewSettled /\ [][NoBareCancel]_vars

\* The preview has settled on a name typed by the user.
C30_Witness ==
    /\ name_var.person_a = "Ann"
    /\ PreviewSettled

\* ---------------------------------------------------------------------
\* ProfileInputPanel.set_profiles, checked under SpecSetProfiles.
\* ---------------------------------------------------------------------
SetProfilesDone == call.op = "set_profiles" /\ ret # Pending

\* What a supplied entry becomes in a control: a number is clamped to
\* [0, 10], an infinite entry reaches the upper end; nan is no number and
\* only has to land in the range.
AppliedEntry(item, stored) ==
    /\ stored >= 0
    /\ stored <= 100000
    /\ item.kind = "num" =>
           stored = IF item.n < 0 THEN 0
                    ELSE IF item.n > 100000 THEN 100000 ELSE item.n
    /\ item.kind = "inf" => stored = 100000

\* The controls of a supplied person hold the supplied name and, for each
\* category the vectors have an entry for, that entry clamped.
PersonApplied(person_id) ==
    LET profile == call.profiles[person_id]
    IN  profile.present =>
            /\ people[person_id].name_var = profile.value.name
            /\ \A mode \in Modes, c \in 1..Len(CATEGORIES) :
                   c <= Len(profile.value[mode]) =>
                       AppliedEntry(profile.value[mode][c],
                                    people[person_id][mode][c])

\* on_profiles_changed was called once, with the profiles of the controls
\* as set_profiles left them; _suspend_callbacks is False again.
NotifiedOnceAtEnd ==
    /\ Len(ret.notified) = 1
    /\ ret.notified[1] = profiles(people)
    /\ ~ret.suspend_callbacks

\* C29 (as stated): set_profiles calls on_profiles_changed exactly once,
\* after every supplied name and value has been applied (values clamped to
\* [0, 10]) and never while the variables are written, and leaves
\* _suspend_callbacks False, also when the update raised part-way.
C29_Original ==
    SetProfilesDone =>
        /\ NotifiedOnceAtEnd
        /\ \A person_id \in Persons : PersonApplied(person_id)

\* C29 (amended): set_profiles calls on_profiles_changed exactly once, from
\* its finally block, never while the variables are written, and leaves
\* _suspend_callbacks False, whether the update returned or raised.  When
\* it returned, every supplied name and the supplied value of each category
\* have been applied before, the values clamped to [0, 10]; when it raised
\* part-way, the one call reports the controls as far as they were written.
C29_NotifiesOnceFromFinally ==
    SetProfilesDone =>
        /\ NotifiedOnceAtEnd
        /\ ret.kind = "return" =>
               \A person_id \in Persons : PersonApplied(person_id)

\* The third giving value of person A is None: the name and two values
\* have been written, the update raised, and the callback ran once.
C29_Witness ==
    /\ SetProfilesDone
    /\ ret.kind = "raise"
    /\ Len(ret.notified) = 1
    /\ people.person_a.name_var = "Ann"
    /\ people.person_a.giving[2] = 70000
    /\ people.person_a.giving[3] = 50000

\* ---------------------------------------------------------------------
\* The arrays of a gathered profile, checked under SpecSnapshot.
\* ---------------------------------------------------------------------
SnapshotDone == call.op = "snapshot" /\ ret # Pending

\* C23: a PersonProfile returned by _gather_profile is a snapshot: a later
\* _set_profile_value on the live arrays changes neither its giving nor its
\* receiving vector, and correlation, close_loop and build_explanation
\* leave the vectors of the profile they are given as they were.
C23_GatheredProfileIsSnapshot ==
    SnapshotDone =>
        /\ ret.after = ret.before
        /\ ret.before = << DefaultScores, DefaultScores >>

\* The value written went to the live array of the gathered person, and the
\* gathered vector still has the value it was returned with.
C23_Witness ==
    /\ SnapshotDone
    /\ call.key = call.person_key
    /\ call.mode = "giving"
    /\ call.core = "close_loop"
    /\ scores[call.key].giving[call.index + 1] = 100000
    /\ ret.after[1][call.index + 1] = 50000

====
